---- MODULE Spec2Model ----
(***************************************************************************)
(* Conaltura WhatsApp bot (src/main.py): the webhook endpoints, the        *)
(* background message dispatcher process_message, and the Redis session    *)
(* store it reads and writes.                                              *)
(*                                                                         *)
(* External collaborators (Meta Graph API, Groq, Google TTS, ffmpeg,       *)
(* Redis) are modelled by the outcomes their calls can have: a success     *)
(* answer, a non-success HTTP status, or a raised exception.               *)
(***************************************************************************)
EXTENDS Integers, Sequences, FiniteSets, TLC

(***************************************************************************)
(* Bounds of the model.                                                    *)
(***************************************************************************)
\* inbound events (scheduled background units) of one behaviour of Spec
MaxEvents == 1
\* inbound events of one behaviour of SpecRace, of SpecAging and of SpecWindow
MaxRacing == 2
\* words of an utterance given to detect_language in SpecLanguage
MaxWords == 2

(***************************************************************************)
(* Program constants.                                                      *)
(***************************************************************************)
\* save_conversation: history[-20:]
HistoryLimit == 20
\* analyze_image: history[-6:]
VisionWindow == 6
\* save_conversation: setex(..., 86400, ...)
TTL == 86400

VERIFY_TOKEN == "loopera-verify-2024"

(***************************************************************************)
(* JSON values, as Python sees them after request.json().                  *)
(*   [t |-> "invalid"]          the body is not JSON: request.json() raises*)
(*   [t |-> "null"]             None                                       *)
(*   [t |-> "num",  v |-> n]    a number                                   *)
(*   [t |-> "str",  v |-> s]    a string                                   *)
(*   [t |-> "list", v |-> seq]  a list                                     *)
(*   [t |-> "dict", v |-> rec]  an object; DOMAIN rec are its keys         *)
(***************************************************************************)
JInvalid == [t |-> "invalid"]
JNull == [t |-> "null"]
JNum(n) == [t |-> "num", v |-> n]
JStr(s) == [t |-> "str", v |-> s]
JList(s) == [t |-> "list", v |-> s]
JDict(r) == [t |-> "dict", v |-> r]
\* the empty dict {}: a function with the empty domain
JEmptyDict == [t |-> "dict", v |-> <<>>]

\* the result of an expression that raised
Raised == [t |-> "raise"]

IsRaised(j) == j.t = "raise"

\* Python truthiness of a JSON value
Truthy(j) ==
    CASE j.t = "null" -> FALSE
      [] j.t = "num" -> j.v # 0
      [] j.t = "str" -> j.v # ""
      [] j.t = "list" -> Len(j.v) > 0
      [] j.t = "dict" -> DOMAIN j.v # {}
      [] OTHER -> FALSE

\* obj.get(key, default): AttributeError unless obj is a dict
PyGet(obj, key, default) ==
    IF IsRaised(obj) THEN Raised
    ELSE IF obj.t # "dict" THEN Raised
    ELSE IF key \in DOMAIN obj.v THEN obj.v[key]
    ELSE default

\* obj[0]: the first element of a non-empty list; a str gives a str or IndexError;
\* a dict gives KeyError (JSON keys are strings); anything else TypeError
PyIndex0(obj) ==
    IF IsRaised(obj) THEN Raised
    ELSE IF obj.t = "list" THEN (IF Len(obj.v) > 0 THEN obj.v[1] ELSE Raised)
    ELSE IF obj.t = "str" THEN (IF obj.v # "" THEN JStr("c") ELSE Raised)
    ELSE Raised

\* str(x) of a value that is formatted into a key or a text
PyNone == "None"

PyStr(j) ==
    CASE j.t = "str" -> j.v
      [] j.t = "null" -> PyNone
      [] OTHER -> "?"

(***************************************************************************)
(* Texts.  Python strings are TLA+ strings; \o is string concatenation.    *)
(* TLC cannot index a string, so the character sequences of the texts the  *)
(* code inspects (startswith, the language keywords) are tabulated.        *)
(***************************************************************************)
\* transcriptions Whisper can return (response.json().get("text", ""))
TranscriptES == "gracias por tu ayuda"
TranscriptEN == "thank you"
TranscriptNoise == "[Music]"

\* transcribe_audio's own placeholders
NoGroqPlaceholder == "[Audio recibido - Groq no configurado]"
FfmpegPlaceholder == "[Error procesando audio]"
WhisperPlaceholder == "[Error transcribiendo audio]"

\* what the chat and vision providers answer with status 200
ChatReply == "Con gusto te ayudo"
VisionReply == "Veo un plano"

\* fixed texts of chat_completion and analyze_image
ChatNoKeyText == "Bot configurado. Falta GROQ_API_KEY para respuestas inteligentes."
ChatErrorText == "Disculpa, tuve un problema. ¿Podrías repetir?"
VisionNoKeyText == "No puedo analizar imágenes sin GROQ_API_KEY configurado."
VisionErrorText == "No pude analizar la imagen. ¿Podrías enviarla de nuevo?"
VisionDefaultPrompt == "¿Qué ves en esta imagen? Descríbela detalladamente."

\* fixed texts of process_message
ApologyNotUnderstood == "No pude entender tu mensaje de voz. ¿Podrías repetirlo?"
ApologyAudioDownload == "No pude descargar tu mensaje de voz. ¿Podrías enviarlo de nuevo?"
ApologyAudioNoId == "No pude procesar tu mensaje de voz. ¿Podrías enviarlo de nuevo?"
ApologyImageDownload == "No pude descargar la imagen. ¿Podrías enviarla de nuevo?"
ApologyImageNoId == "No pude procesar la imagen. ¿Podrías enviarla de nuevo?"
ApologyEmptyText == "No pude procesar ese mensaje. ¿Podrías escribirme?"
FallbackText == "Disculpa, tuve un problema. ¿Podrías intentar de nuevo?"

Apologies ==
    {ApologyNotUnderstood, ApologyAudioDownload, ApologyAudioNoId,
     ApologyImageDownload, ApologyImageNoId, ApologyEmptyText}

\* the first character of a text ("" for the empty text)
FirstChar(s) ==
    CASE s = "" -> ""
      [] s \in {NoGroqPlaceholder, FfmpegPlaceholder, WhisperPlaceholder,
                TranscriptNoise} -> "["
      [] s = TranscriptES -> "g"
      [] s = TranscriptEN -> "t"
      [] OTHER -> "?"

\* a check for an opening parenthesis in place of the bracket
StartsWithParen(s) == FirstChar(s) = "("

\* text.startswith("[")
StartsWithBracket(s) == FirstChar(s) = "["

(***************************************************************************)
(* Conversation turns and histories.                                       *)
(***************************************************************************)
Turn(role, content) == [role |-> role, content |-> content]

\* seq[-n:]
LastN(seq, n) ==
    IF Len(seq) <= n THEN seq ELSE SubSeq(seq, Len(seq) - n + 1, Len(seq))

\* a history the program has stored after n turns of earlier text events:
\* the user wrote "1", the assistant answered "2", and so on
SeedHistory(n) ==
    [i \in 1..n |-> Turn(IF i % 2 = 1 THEN "user" ELSE "assistant", ToString(i))]

(***************************************************************************)
(* GET /webhook: verify_webhook.                                           *)
(***************************************************************************)
\* request.query_params.get(name) of a parameter that is not in the query
Absent == "<absent>"

\* verify_webhook(mode, token, challenge) -> the HTTP response.  The log line
\* slices token[:10] before the comparison: a missing token (None) raises
\* TypeError there, which the framework answers with status 500.
verify_webhook(mode, token, challenge) ==
    IF token = Absent
    THEN [status |-> 500, body |-> "Internal Server Error"]
    ELSE IF mode = "subscribe" /\ token = VERIFY_TOKEN
    THEN [status |-> 200, body |-> IF challenge = Absent THEN "" ELSE challenge]
    ELSE [status |-> 403, body |-> "Verification failed"]

(***************************************************************************)
(* POST /webhook: receive_webhook.                                         *)
(***************************************************************************)
\* the arguments of process_message when nothing is scheduled
NoArgs == [phone |-> "", message |-> JNull, message_type |-> "", message_id |-> ""]

\* lines 908-915: the nested lookups; Raised when any of them raises
ExtractMessages(body) ==
    IF body.t = "invalid" THEN Raised
    ELSE
      LET entry == PyIndex0(PyGet(body, "entry", JList(<<JEmptyDict>>)))
          changes == PyIndex0(PyGet(entry, "changes", JList(<<JEmptyDict>>)))
          value == PyGet(changes, "value", JEmptyDict)
      IN  PyGet(value, "messages", JList(<<>>))

\* the task made of the last message of the list instead of the first
ExtractTaskLast(messages) ==
    LET message == IF messages.t = "list" /\ Len(messages.v) > 0
                   THEN messages.v[Len(messages.v)] ELSE Raised
        phone == PyGet(message, "from", JNull)
        message_id == PyGet(message, "id", JNull)
        message_type == PyGet(message, "type", JNull)
    IN  IF IsRaised(message) \/ IsRaised(phone) THEN Raised
        ELSE [t |-> "task",
              args |-> [phone |-> PyStr(phone), message |-> message,
                        message_type |-> PyStr(message_type),
                        message_id |-> PyStr(message_id)]]

\* lines 921-935: the first message and the task made of it
ExtractTask(messages) ==
    LET message == PyIndex0(messages)
        phone == PyGet(message, "from", JNull)
        message_id == PyGet(message, "id", JNull)
        message_type == PyGet(message, "type", JNull)
    IN  IF IsRaised(message) \/ IsRaised(phone) THEN Raised
        ELSE [t |-> "task",
              args |-> [phone |-> PyStr(phone), message |-> message,
                        message_type |-> PyStr(message_type),
                        message_id |-> PyStr(message_id)]]

\* the try block scheduling a unit for whatever the lookups gave, the check of
\* line 917 forgotten and the message fields read leniently
WebhookTryUnchecked(body) ==
    LET messages == ExtractMessages(body)
    IN  IF IsRaised(messages) THEN Raised
        ELSE [t |-> "return", scheduled |-> TRUE,
              args |-> IF IsRaised(ExtractTask(messages)) THEN NoArgs
                       ELSE ExtractTask(messages).args]

\* the try block of receive_webhook: what it returns or that it raised
WebhookTry(body) ==
    LET messages == ExtractMessages(body)
    IN  IF IsRaised(messages) THEN Raised
        ELSE IF ~Truthy(messages)
        THEN [t |-> "return", scheduled |-> FALSE, args |-> NoArgs]
        ELSE LET task == ExtractTask(messages)
             IN  IF IsRaised(task) THEN Raised
                 ELSE [t |-> "return", scheduled |-> TRUE, args |-> task.args]

\* receive_webhook without its except clause: the framework answers 500
receive_webhook_unguarded(body) ==
    LET r == WebhookTry(body)
    IN  IF IsRaised(r)
        THEN [status |-> 500, body |-> "Internal Server Error", scheduled |-> FALSE,
              args |-> NoArgs]
        ELSE [status |-> 200, body |-> "ok", scheduled |-> r.scheduled, args |-> r.args]

\* receive_webhook(body) -> the HTTP response and the background task, if any
receive_webhook(body) ==
    LET r == WebhookTry(body)
    IN  IF IsRaised(r)
        THEN [status |-> 200, body |-> "ok", scheduled |-> FALSE, args |-> NoArgs]
        ELSE [status |-> 200, body |-> "ok", scheduled |-> r.scheduled, args |-> r.args]

(***************************************************************************)
(* Requests the channel provider can send.                                 *)
(***************************************************************************)
Phones == {"573001", "573002"}

\* store keys conv:<phone>; a message without "from" gives the key conv:None
Keys == Phones \cup {PyNone}

TextMsg(p, b) ==
    JDict([from |-> JStr(p), id |-> JStr("wamid.1"), type |-> JStr("text"),
           text |-> JDict([body |-> JStr(b)])])

AudioMsg(p, audio) ==
    JDict([from |-> JStr(p), id |-> JStr("wamid.2"), type |-> JStr("audio"),
           audio |-> audio])

ImageMsg(p, image) ==
    JDict([from |-> JStr(p), id |-> JStr("wamid.3"), type |-> JStr("image"),
           image |-> image])

StickerMsg(p) ==
    JDict([from |-> JStr(p), id |-> JStr("wamid.4"), type |-> JStr("sticker")])

MediaWithId == JDict([id |-> JStr("media.1"), mime_type |-> JStr("image/png")])
MediaNoId == JDict([mime_type |-> JStr("image/png")])
MediaCaption == JDict([id |-> JStr("media.1"), caption |-> JStr("plano")])

\* the well-formed messages of one sender
SenderMessages(p) ==
    {TextMsg(p, "Hola"), TextMsg(p, ""),
     AudioMsg(p, MediaWithId), AudioMsg(p, MediaNoId),
     ImageMsg(p, MediaWithId), ImageMsg(p, MediaCaption), ImageMsg(p, MediaNoId),
     StickerMsg(p)}

\* messages with missing or wrongly typed fields
OddMessages ==
    {JDict([from |-> JStr("573001"), id |-> JStr("wamid.5"), type |-> JStr("text")]),
     JDict([from |-> JStr("573001"), id |-> JStr("wamid.5"), type |-> JStr("text"),
            text |-> JStr("Hola")]),
     JDict([from |-> JStr("573001"), id |-> JStr("wamid.5"), type |-> JStr("text"),
            text |-> JDict([body |-> JNum(7)])]),
     JDict([from |-> JStr("573001"), id |-> JStr("wamid.5"), type |-> JStr("audio"),
            audio |-> JNull]),
     JDict([from |-> JStr("573001"), id |-> JStr("wamid.5"), type |-> JStr("image"),
            image |-> JDict([id |-> JStr("media.1"), caption |-> JNum(7)])]),
     JDict([id |-> JStr("wamid.6"), type |-> JStr("text"),
            text |-> JDict([body |-> JStr("Hola")])]),
     JDict([from |-> JStr("573002"), id |-> JStr("wamid.7")])}

Messages == UNION {SenderMessages(p) : p \in Phones} \cup OddMessages

Change(value) == JDict([field |-> JStr("messages"), value |-> value])
Entry(changes) == JDict([id |-> JStr("waba"), changes |-> changes])
Envelope(entries) ==
    JDict([object |-> JStr("whatsapp_business_account"), entry |-> entries])

\* {entry: [{changes: [{value: {messages: msgs}}]}]}
MessageBody(msgs) ==
    Envelope(JList(<<Entry(JList(<<Change(JDict([messages |-> msgs]))>>))>>))

\* a delivery-status callback: statuses, no messages
StatusValue == JDict([statuses |-> JList(<<JDict([status |-> JStr("delivered")])>>)])

StatusBodies ==
    {Envelope(JList(<<Entry(JList(<<Change(StatusValue)>>))>>)),
     MessageBody(JList(<<>>)),
     MessageBody(JNull),
     \* entry or changes absent: the [{}] defaults apply
     JDict([object |-> JStr("whatsapp_business_account")]),
     Envelope(JList(<<JDict([id |-> JStr("waba")])>>)),
     Envelope(JList(<<Entry(JList(<<JDict([field |-> JStr("messages")])>>))>>))}

MalformedBodies ==
    {JInvalid, JList(<<>>), JNull, JStr("ping"),
     Envelope(JList(<<>>)), Envelope(JNull), Envelope(JStr("x")),
     Envelope(JList(<<JStr("x")>>)),
     Envelope(JList(<<Entry(JList(<<>>))>>)),
     Envelope(JList(<<Entry(JEmptyDict)>>)),
     Envelope(JList(<<Entry(JList(<<Change(JNull)>>))>>)),
     MessageBody(JStr("x")), MessageBody(JNum(1)),
     MessageBody(JDict([k |-> JStr("v")])),
     MessageBody(JList(<<JStr("x")>>)), MessageBody(JList(<<JNull>>))}

\* bodies with more than one message, change or entry
MultiBodies ==
    {MessageBody(JList(<<TextMsg("573001", "Hola"), AudioMsg("573002", MediaWithId)>>)),
     Envelope(JList(<<Entry(JList(<<Change(StatusValue),
                                    Change(JDict([messages |->
                                       JList(<<TextMsg("573001", "Hola")>>)]))>>))>>)),
     Envelope(JList(<<Entry(JList(<<Change(JDict([messages |->
                                       JList(<<StickerMsg("573002")>>)]))>>)),
                      Entry(JList(<<Change(JDict([messages |->
                                       JList(<<TextMsg("573001", "Hola")>>)]))>>))>>))}

Bodies ==
    {MessageBody(JList(<<m>>)) : m \in Messages}
        \cup StatusBodies \cup MalformedBodies \cup MultiBodies

\* GET /webhook query parameters
Modes == {Absent, "subscribe", "unsubscribe"}
Tokens == {Absent, VERIFY_TOKEN, "wrong-token", ""}
Challenges == {Absent, "123"}

(***************************************************************************)
(* State.                                                                  *)
(***************************************************************************)
VARIABLES
    redis_client,   \* "connected", or "None" after init_redis found no store
    groq_api_key,   \* TRUE iff GROQ_API_KEY is set
    store,          \* Redis: key conv:<phone> -> the stored list of turns
    ttl,            \* Redis: key conv:<phone> -> the seconds the key still lives (0: no key)
    tasks,          \* the running process_message invocations, by slot
    nevents,        \* background units scheduled so far
    http,           \* the last request served and its response
    utterance       \* a text given to detect_language on its own, and the language returned

vars == <<redis_client, groq_api_key, store, ttl, tasks, nevents, http, utterance>>

\* slots for background units that run at the same time
Slots == {1, 2}

\* The position of a process_message invocation is the line of the await it is
\* about to execute: "l716" is `await mark_as_read(message_id)`.
IdleTask ==
    [pc |-> "idle", phone |-> "", message |-> JNull, message_type |-> "",
     message_id |-> "", user_text |-> "", caption |-> "", history |-> <<>>,
     response |-> "", language |-> "", audio_response |-> FALSE,
     calls |-> <<>>, raised |-> FALSE]

\* one call of an external step: its target, what it was given, how it ended
Call(op, to, text, msgs, res) ==
    [op |-> op, to |-> to, text |-> text, msgs |-> msgs, res |-> res]

\* the task record after a call that returned, at position pc
Returned(task, call, pc) ==
    [task EXCEPT !.calls = Append(@, call), !.pc = pc]

\* the task record after a call that raised into process_message: control is at
\* the except clause (line 835), about to send the generic fallback
RaisedIn(task, call) ==
    [task EXCEPT !.calls = Append(@, call), !.pc = "l838", !.raised = TRUE]

\* no text is being classified on its own
NoUtterance == [chars |-> <<>>, language |-> ""]

\* the seeded histories were saved twelve hours before
SeedLife == TTL \div 2

\* what the store holds at startup: per sender nothing, two earlier exchanges,
\* or a full window left by earlier events; a store that is not connected holds
\* nothing one can see
SeedHistories == {<<>>, SeedHistory(4), SeedHistory(HistoryLimit)}

SeedStores(client) ==
    IF client = "None" THEN {[k \in Keys |-> <<>>]}
    ELSE {st \in [Keys -> SeedHistories] : st[PyNone] = <<>>}

Init ==
    /\ redis_client \in {"connected", "None"}
    /\ groq_api_key \in BOOLEAN
    /\ store \in SeedStores(redis_client)
    /\ ttl = [k \in Keys |-> IF store[k] = <<>> THEN 0 ELSE SeedLife]
    /\ tasks = [t \in Slots |-> IdleTask]
    /\ nevents = 0
    /\ http = [method |-> "none"]
    /\ utterance = NoUtterance

AllIdle == \A t \in Slots : tasks[t].pc = "idle"
SomeIdle == \E t \in Slots : tasks[t].pc = "idle"
FreeSlot == CHOOSE t \in Slots : tasks[t].pc = "idle" /\ \A u \in Slots : u < t => tasks[u].pc # "idle"

(***************************************************************************)
(* The endpoints.                                                          *)
(***************************************************************************)
NoExchange == [method |-> "none"]

GetWebhook(mode, token, challenge) ==
    /\ http = NoExchange
    /\ http' = [method |-> "GET",
                req |-> [mode |-> mode, token |-> token, challenge |-> challenge],
                resp |-> verify_webhook(mode, token, challenge)]
    /\ UNCHANGED <<utterance, redis_client, groq_api_key, store, ttl, tasks, nevents>>

\* background_tasks.add_task(process_message, ...): the unit starts at line 716
PostWebhook(body, limit) ==
    LET r == receive_webhook(body)
    IN  /\ http = NoExchange
        /\ r.scheduled => nevents < limit /\ SomeIdle
        /\ http' = [method |-> "POST", req |-> body,
                    resp |-> [status |-> r.status, body |-> r.body],
                    scheduled |-> r.scheduled, args |-> r.args]
        /\ IF r.scheduled
           THEN /\ tasks' = [tasks EXCEPT ![FreeSlot] =
                      [IdleTask EXCEPT !.pc = "l716", !.phone = r.args.phone,
                                       !.message = r.args.message,
                                       !.message_type = r.args.message_type,
                                       !.message_id = r.args.message_id]]
                /\ nevents' = nevents + 1
           ELSE UNCHANGED <<tasks, nevents>>
        /\ UNCHANGED <<utterance, redis_client, groq_api_key, store, ttl>>

\* the response leaves the server; a background unit starts after it
Respond ==
    /\ http # NoExchange
    /\ http' = NoExchange
    /\ UNCHANGED <<utterance, redis_client, groq_api_key, store, ttl, tasks, nevents>>

(***************************************************************************)
(* The language heuristic: detect_language.                                *)
(***************************************************************************)
\* the characters of the utterances of the model
Chars(s) ==
    CASE s = TranscriptES -> <<"g", "r", "a", "c", "i", "a", "s", " ", "p", "o", "r", " ", "t", "u", " ", "a", "y", "u", "d", "a">>
      [] s = TranscriptEN -> <<"t", "h", "a", "n", "k", " ", "y", "o", "u">>
      [] s = TranscriptNoise -> <<"[", "M", "u", "s", "i", "c", "]">>
      [] s = "Hola" -> <<"H", "o", "l", "a">>
      [] OTHER -> <<>>

\* spanish_words, each as its characters
spanish_words ==
    {<<"h", "o", "l", "a">>,
     <<"q", "u", "é">>,
     <<"c", "ó", "m", "o">>,
     <<"g", "r", "a", "c", "i", "a", "s">>,
     <<"p", "o", "r", " ", "f", "a", "v", "o", "r">>,
     <<"n", "e", "c", "e", "s", "i", "t", "o">>,
     <<"q", "u", "i", "e", "r", "o">>,
     <<"b", "u", "e", "n", "o", "s">>,
     <<"b", "u", "e", "n", "a", "s">>,
     <<"e", "s", "t", "á">>,
     <<"d", "ó", "n", "d", "e">>,
     <<"c", "u", "á", "n", "d", "o">>,
     <<"c", "u", "á", "n", "t", "o">>,
     <<"p", "u", "e", "d", "e">>,
     <<"t", "i", "e", "n", "e", "n">>,
     <<"h", "a", "c", "e", "r">>,
     <<"a", "y", "u", "d", "a">>,
     <<"i", "n", "f", "o", "r", "m", "a", "c", "i", "ó", "n">>,
     <<"s", "e", "r", "v", "i", "c", "i", "o">>,
     <<"p", "r", "e", "c", "i", "o">>,
     <<"c", "u", "e", "n", "t", "a">>,
     <<"b", "i", "e", "n">>,
     <<"m", "u", "c", "h", "o">>,
     <<"p", "a", "r", "a">>}

UpperCase == <<"A", "B", "C", "D", "E", "F", "G", "H", "I", "J", "K", "L", "M", "N", "O", "P", "Q", "R", "S", "T", "U", "V", "W", "X", "Y", "Z", "Á", "É", "Í", "Ó", "Ú", "Ñ">>
LowerCase == <<"a", "b", "c", "d", "e", "f", "g", "h", "i", "j", "k", "l", "m", "n", "o", "p", "q", "r", "s", "t", "u", "v", "w", "x", "y", "z", "á", "é", "í", "ó", "ú", "ñ">>

\* str.lower(), character by character
LowerChar(c) ==
    IF \E i \in 1..Len(UpperCase) : UpperCase[i] = c
    THEN LowerCase[CHOOSE i \in 1..Len(UpperCase) : UpperCase[i] = c]
    ELSE c

Lower(cs) == [i \in 1..Len(cs) |-> LowerChar(cs[i])]

\* `word in text`: word occurs in text as a contiguous run of characters
Contains(text, word) ==
    \E i \in 0..(Len(text) - Len(word)) : SubSeq(text, i + 1, i + Len(word)) = word

\* detect_language looking for the keywords in the text as written, not lowercased
detect_language_cased(cs) ==
    LET spanish_count == Cardinality({word \in spanish_words : Contains(cs, word)})
    IN  IF spanish_count >= 1 THEN "es" ELSE "en"

\* detect_language on the characters of a text
detect_language_chars(cs) ==
    LET text_lower == Lower(cs)
        spanish_count == Cardinality({word \in spanish_words : Contains(text_lower, word)})
    IN  IF spanish_count >= 1 THEN "es" ELSE "en"

detect_language(text) == detect_language_chars(Chars(text))

(***************************************************************************)
(* process_message, one action per await.                                  *)
(***************************************************************************)
SystemTurn == Turn("system", "Eres Cami")

\* an exception raised by process_message's own statements (no call involved)
Throw(task) == [task EXCEPT !.pc = "l838", !.raised = TRUE]

\* lines 719-817 from the return of mark_as_read to the next await: the content
\* of the message is extracted and the branch of the modality is entered
ExtractContent(task) ==
    LET message == task.message
        mt == task.message_type
    IN  IF mt = "text" THEN
            LET body == PyGet(PyGet(message, "text", JEmptyDict), "body", JStr(""))
            IN  IF IsRaised(body) THEN Throw(task)
                ELSE IF ~Truthy(body) THEN [task EXCEPT !.pc = "l816"]
                \* line 819: user_text[:100] of a value that is no string
                ELSE IF body.t # "str" THEN Throw(task)
                ELSE [task EXCEPT !.user_text = body.v, !.pc = "l822"]
        ELSE IF mt = "audio" THEN
            LET audio_id == PyGet(PyGet(message, "audio", JEmptyDict), "id", JNull)
            IN  IF IsRaised(audio_id) THEN Throw(task)
                ELSE IF Truthy(audio_id) THEN [task EXCEPT !.pc = "l726"]
                ELSE [task EXCEPT !.pc = "l775"]
        ELSE IF mt = "image" THEN
            LET image == PyGet(message, "image", JEmptyDict)
                image_id == PyGet(image, "id", JNull)
                caption == PyGet(image, "caption", JStr(""))
            IN  IF IsRaised(image_id) THEN Throw(task)
                ELSE IF Truthy(image_id)
                THEN [task EXCEPT !.caption = IF Truthy(caption) THEN PyStr(caption) ELSE "",
                                  !.pc = "l785"]
                ELSE [task EXCEPT !.pc = "l810"]
        ELSE [task EXCEPT !.user_text = "[" \o mt \o " recibido]", !.pc = "l822"]

\* mark_as_read raising what its request raised, the bare except forgotten
mark_as_read_raising(task, out) ==
    LET call == Call("mark_as_read", "", task.message_id, <<>>, out)
    IN  IF out = "raise" THEN RaisedIn(task, call) ELSE Returned(task, call, "l719")

\* mark_as_read(message_id): the POST may fail; the bare except swallows it, so
\* the caller sees the same return (None) whatever the outcome
mark_as_read(task, out) ==
    Returned(task, Call("mark_as_read", "", task.message_id, <<>>, out), "l719")

\* line 716 and the statements up to the next await.  outs are the outcomes of
\* the request the record of calls tells apart: {"ok", "raise"}, or {"either"}
\* where the outcome, which no later step reads, is left out of the record
MarkAsRead(t, outs) ==
    /\ tasks[t].pc = "l716"
    /\ http = NoExchange
    /\ \E out \in outs :
          LET after == mark_as_read(tasks[t], out)
          IN  tasks' = [tasks EXCEPT ![t] =
                           IF after.raised THEN after ELSE ExtractContent(after)]
    /\ UNCHANGED <<utterance, redis_client, groq_api_key, store, ttl, nevents, http>>

\* download_media whose None is not checked by the caller
download_media_unchecked(task, out) ==
    LET call == Call("download_media", "", "media.1", <<>>, out)
    IN  IF out = "raise" THEN RaisedIn(task, call)
        ELSE Returned(task, call, IF task.pc = "l726" THEN "l729" ELSE "l792")

\* download_media asked again when it gave nothing
download_media_retrying(task, out) ==
    LET call == Call("download_media", "", "media.1", <<>>, out)
        audio == task.pc = "l726"
    IN  CASE out = "raise" -> RaisedIn(task, call)
          [] out = "bytes" -> Returned(task, call, IF audio THEN "l729" ELSE "l792")
          [] OTHER -> Returned(task, call, task.pc)

\* download_media(media_id): bytes, None (a non-200 answer, no url, no content)
\* or an exception of the HTTP client
download_media(task, out) ==
    LET call == Call("download_media", "", "media.1", <<>>, out)
        audio == task.pc = "l726"
    IN  CASE out = "raise" -> RaisedIn(task, call)
          [] out = "bytes" -> Returned(task, call, IF audio THEN "l729" ELSE "l792")
          [] OTHER -> Returned(task, call, IF audio THEN "l772" ELSE "l807")

DownloadMedia(t) ==
    /\ tasks[t].pc \in {"l726", "l785"}
    /\ \E out \in {"bytes", "none", "raise"} :
          tasks' = [tasks EXCEPT ![t] = download_media(tasks[t], out)]
    /\ UNCHANGED <<utterance, redis_client, groq_api_key, store, ttl, nevents, http>>

\* what Whisper can answer with status 200
Transcripts == {TranscriptES, TranscriptEN, TranscriptNoise, ""}

\* the ways transcribe_audio can end, given the configuration
TranscribeOutcomes(key) ==
    IF ~key THEN {"nokey"}
    ELSE {"ffmpeg_error", "ffmpeg_timeout", "http_raise", "non200", "200"}

\* transcribe_audio without the check of line 732: placeholders go on to chat
transcribe_audio_unchecked(task, out, text) ==
    LET user_text ==
            CASE out = "nokey" -> NoGroqPlaceholder
              [] out = "ffmpeg_error" -> FfmpegPlaceholder
              [] out = "non200" -> WhisperPlaceholder
              [] OTHER -> text
    IN  IF out \in {"ffmpeg_timeout", "http_raise"}
        THEN RaisedIn(task, Call("transcribe_audio", "", "", <<>>, out))
        ELSE [Returned(task, Call("transcribe_audio", "", user_text, <<>>, out), "l737")
                 EXCEPT !.user_text = user_text]

\* transcribe_audio(audio_bytes) and lines 730-734
transcribe_audio(task, out, text) ==
    LET user_text ==
            CASE out = "nokey" -> NoGroqPlaceholder
              [] out = "ffmpeg_error" -> FfmpegPlaceholder
              [] out = "non200" -> WhisperPlaceholder
              [] OTHER -> text
        call == Call("transcribe_audio", "", user_text, <<>>, out)
    IN  IF out \in {"ffmpeg_timeout", "http_raise"}
        THEN RaisedIn(task, Call("transcribe_audio", "", "", <<>>, out))
        ELSE IF user_text = "" \/ StartsWithBracket(user_text)
        THEN [Returned(task, call, "l733") EXCEPT !.user_text = user_text]
        ELSE [Returned(task, call, "l737") EXCEPT !.user_text = user_text]

TranscribeAudio(t) ==
    /\ tasks[t].pc = "l729"
    /\ \E out \in TranscribeOutcomes(groq_api_key) :
       \E text \in (IF out = "200" THEN Transcripts ELSE {""}) :
          tasks' = [tasks EXCEPT ![t] = transcribe_audio(tasks[t], out, text)]
    /\ UNCHANGED <<utterance, redis_client, groq_api_key, store, ttl, nevents, http>>

\* the ways a store call can end, given the connection
StoreOutcomes(client) == IF client = "None" THEN {"disconnected"} ELSE {"ok", "error"}

\* get_conversation_history returning what the store holds whatever the outcome
get_conversation_history_stale(st, phone, out) == st[phone]

\* get_conversation_history(phone): [] without a connection or on any error
get_conversation_history(st, phone, out) ==
    IF out = "ok" THEN st[phone] ELSE <<>>

GetConversationHistory(t) ==
    /\ tasks[t].pc \in {"l737", "l792", "l822"}
    /\ \E out \in StoreOutcomes(redis_client) :
          LET task == tasks[t]
              history == get_conversation_history(store, task.phone, out)
              call == Call("get_conversation_history", task.phone, "", history, out)
              next == CASE task.pc = "l737" -> "l738"
                        [] task.pc = "l792" -> "l793"
                        [] OTHER -> "l823"
          IN  tasks' = [tasks EXCEPT ![t] =
                           [Returned(task, call, next) EXCEPT !.history = history]]
    /\ UNCHANGED <<utterance, redis_client, groq_api_key, store, ttl, nevents, http>>

\* the ways a Groq chat or vision request can end, given the configuration
GroqOutcomes(key) == IF ~key THEN {"nokey"} ELSE {"200", "non200", "raise"}

\* the new user message put before the prior turns
ChatMessagesUserFirst(user_message, history) ==
    <<SystemTurn, Turn("user", user_message)>> \o history

\* lines 477-480: the messages chat_completion submits
ChatMessages(user_message, history) ==
    <<SystemTurn>> \o history \o <<Turn("user", user_message)>>

\* chat_completion raising on a status other than 200 (raise_for_status)
chat_completion_raising(task, out) ==
    LET msgs == ChatMessages(task.user_text, task.history)
        response == IF out = "nokey" THEN ChatNoKeyText ELSE ChatReply
        call == Call("chat_completion", "", response, msgs, out)
        language == detect_language(task.user_text)
    IN  IF out \in {"raise", "non200"}
        THEN RaisedIn(task, Call("chat_completion", "", "", msgs, out))
        ELSE IF task.pc = "l823"
        THEN [Returned(task, call, "l828") EXCEPT !.response = response]
        ELSE [Returned(task, call, IF language = "es" THEN "l750" ELSE "l754")
                 EXCEPT !.response = response, !.language = language]

\* chat_completion(user_text, history) and the statements up to the next await
chat_completion(task, out) ==
    LET msgs == ChatMessages(task.user_text, task.history)
        response ==
            CASE out = "nokey" -> ChatNoKeyText
              [] out = "200" -> ChatReply
              [] OTHER -> ChatErrorText
        call == Call("chat_completion", "", response, msgs, out)
        language == detect_language(task.user_text)
    IN  IF out = "raise"
        THEN RaisedIn(task, Call("chat_completion", "", "", msgs, out))
        ELSE IF task.pc = "l823"
        THEN [Returned(task, call, "l828") EXCEPT !.response = response]
        ELSE [Returned(task, call, IF language = "es" THEN "l750" ELSE "l754")
                 EXCEPT !.response = response, !.language = language]

ChatCompletion(t) ==
    /\ tasks[t].pc \in {"l738", "l823"}
    /\ \E out \in GroqOutcomes(groq_api_key) :
          tasks' = [tasks EXCEPT ![t] = chat_completion(tasks[t], out)]
    /\ UNCHANGED <<utterance, redis_client, groq_api_key, store, ttl, nevents, http>>

\* the other route tried when the Spanish one gave nothing
AfterSynthesisTryingOther(task, call, audio) ==
    [Returned(task, call,
              IF audio THEN "l758"
              ELSE IF call.op = "google_text_to_speech" THEN "l754" ELSE "l764")
        EXCEPT !.audio_response = audio]

\* lines 757-764: a voice reply if there is audio, the text reply otherwise
AfterSynthesis(task, call, audio) ==
    [Returned(task, call, IF audio THEN "l758" ELSE "l764")
        EXCEPT !.audio_response = audio]

\* google_text_to_speech(response, "es"): audio, or None when the client is not
\* configured or the request fails; it raises nothing
google_text_to_speech(task, out) ==
    AfterSynthesis(task, Call("google_text_to_speech", "", task.response, <<>>, out),
                   out = "audio")

GoogleTextToSpeech(t) ==
    /\ tasks[t].pc = "l750"
    /\ \E out \in {"audio", "none"} :
          tasks' = [tasks EXCEPT ![t] = google_text_to_speech(tasks[t], out)]
    /\ UNCHANGED <<utterance, redis_client, groq_api_key, store, ttl, nevents, http>>

\* the ways text_to_speech can end, given the configuration
SpeechOutcomes(key) ==
    IF ~key THEN {"nokey"}
    ELSE {"mp3", "non200", "convert_failed", "convert_hang", "exception"}

\* text_to_speech(response): MP3 bytes only when the request and the conversion
\* of the WAV both succeed; None otherwise; it raises nothing.  The encoder of
\* convert_wav_to_mp3 runs without a timeout (line 209): when it does not
\* exit, the call never returns and the unit stays at that line
text_to_speech(task, out) ==
    LET call == Call("text_to_speech", "", task.response, <<>>, out)
    IN  IF out = "convert_hang" THEN Returned(task, call, "l209")
        ELSE AfterSynthesis(task, call, out = "mp3")

\* the two synthesis routes, and how a call of a route can end for a language:
\* text_to_speech returns None for "es" before any request (lines 241-242);
\* google_text_to_speech picks an es-US or an en-US voice (lines 302-313) and
\* returns audio for either language
Routes == {"google_text_to_speech", "text_to_speech"}

RouteOutcomes(route, language, key) ==
    IF route = "google_text_to_speech" THEN {"audio", "none"}
    ELSE IF key /\ language = "es" THEN {"unsupported"}
    ELSE SpeechOutcomes(key)

TextToSpeech(t) ==
    /\ tasks[t].pc = "l754"
    /\ \E out \in SpeechOutcomes(groq_api_key) :
          tasks' = [tasks EXCEPT ![t] = text_to_speech(tasks[t], out)]
    /\ UNCHANGED <<utterance, redis_client, groq_api_key, store, ttl, nevents, http>>

\* send_whatsapp_audio followed by the text reply also when the voice was delivered
send_whatsapp_audio_and_text(task, out) ==
    LET call == Call("send_whatsapp_audio", task.phone, "", <<>>, out)
    IN  IF out = "raise" THEN RaisedIn(task, call) ELSE Returned(task, call, "l761")

\* send_whatsapp_audio(phone, audio_response): True, False or an exception
send_whatsapp_audio(task, out) ==
    LET call == Call("send_whatsapp_audio", task.phone, "", <<>>, out)
    IN  CASE out = "raise" -> RaisedIn(task, call)
          [] out = "true" -> Returned(task, call, "l769")
          [] OTHER -> Returned(task, call, "l761")

SendWhatsappAudio(t) ==
    /\ tasks[t].pc = "l758"
    /\ \E out \in {"true", "false", "raise"} :
          tasks' = [tasks EXCEPT ![t] = send_whatsapp_audio(tasks[t], out)]
    /\ UNCHANGED <<utterance, redis_client, groq_api_key, store, ttl, nevents, http>>

\* the messages of the vision request with the whole history, the window forgotten
VisionMessagesFull(caption, history) ==
    <<SystemTurn>> \o history
        \o <<Turn("user", "<image> " \o
                  (IF caption # "" THEN caption ELSE VisionDefaultPrompt))>>

\* the vision request given the last five prior turns, one short of the window
VisionMessagesOdd(caption, history) ==
    <<SystemTurn>> \o LastN(history, VisionWindow - 1)
        \o <<Turn("user", "<image> " \o
                  (IF caption # "" THEN caption ELSE VisionDefaultPrompt))>>

\* lines 535-539: the prior turns analyze_image submits
\* and lines 542-554: the user message, the image and the caption or the prompt
VisionMessages(caption, history) ==
    <<SystemTurn>> \o LastN(history, VisionWindow)
        \o <<Turn("user", "<image> " \o
                  (IF caption # "" THEN caption ELSE VisionDefaultPrompt))>>

\* analyze_image(image_base64, mime_type, caption, history)
analyze_image(task, out) ==
    LET msgs == VisionMessages(task.caption, task.history)
        response ==
            CASE out = "nokey" -> VisionNoKeyText
              [] out = "200" -> VisionReply
              [] OTHER -> VisionErrorText
    IN  IF out = "raise"
        THEN RaisedIn(task, Call("analyze_image", "", "", msgs, out))
        ELSE [Returned(task, Call("analyze_image", "", response, msgs, out), "l798")
                 EXCEPT !.response = response]

AnalyzeImage(t) ==
    /\ tasks[t].pc = "l793"
    /\ \E out \in GroqOutcomes(groq_api_key) :
          tasks' = [tasks EXCEPT ![t] = analyze_image(tasks[t], out)]
    /\ UNCHANGED <<utterance, redis_client, groq_api_key, store, ttl, nevents, http>>

\* the awaits of send_whatsapp_message inside the try block
SendSites == {"l733", "l761", "l764", "l772", "l775", "l798", "l807", "l810", "l816", "l828"}

\* the text each of them sends
SentText(task) ==
    CASE task.pc = "l733" -> ApologyNotUnderstood
      [] task.pc = "l772" -> ApologyAudioDownload
      [] task.pc = "l775" -> ApologyAudioNoId
      [] task.pc = "l807" -> ApologyImageDownload
      [] task.pc = "l810" -> ApologyImageNoId
      [] task.pc = "l816" -> ApologyEmptyText
      [] OTHER -> task.response

\* the empty-text apology followed by the save of the text branch, the return forgotten
AfterSendSaving(pc) ==
    CASE pc \in {"l761", "l764"} -> "l769"
      [] pc = "l798" -> "l804"
      [] pc \in {"l816", "l828"} -> "l833"
      [] OTHER -> "done"

\* where control goes when the send returns: the save of the branch, or return
AfterSend(pc) ==
    CASE pc \in {"l761", "l764"} -> "l769"
      [] pc = "l798" -> "l804"
      [] pc = "l828" -> "l833"
      [] OTHER -> "done"

\* line 801, reached when the send of the vision reply returns: ': ' + caption
\* of a caption that is truthy and no string is a TypeError
CaptionRaises(task) ==
    LET caption == PyGet(PyGet(task.message, "image", JEmptyDict), "caption", JStr(""))
    IN  Truthy(caption) /\ caption.t # "str"

\* send_whatsapp_message(phone, text) inside the try block: the response is
\* returned whatever its status (a non-200 is only logged); an exception of the
\* HTTP client propagates
send_whatsapp_message(task, out) ==
    LET call == Call("send_whatsapp_message", task.phone, SentText(task), <<>>, out)
    IN  IF out = "raise" THEN RaisedIn(task, call)
        ELSE IF task.pc = "l798" /\ CaptionRaises(task) THEN Throw(Returned(task, call, "l798"))
        ELSE Returned(task, call, AfterSend(task.pc))

SendWhatsappMessage(t) ==
    /\ tasks[t].pc \in SendSites
    /\ \E out \in {"200", "non200", "raise"} :
          tasks' = [tasks EXCEPT ![t] = send_whatsapp_message(tasks[t], out)]
    /\ UNCHANGED <<utterance, redis_client, groq_api_key, store, ttl, nevents, http>>

\* the user content descriptor of the branch (lines 767, 801, 831)
UserDescriptor(task) ==
    CASE task.pc = "l769" -> "[Audio] " \o task.user_text
      [] task.pc = "l804" ->
            "[Imagen enviada]" \o (IF task.caption # "" THEN ": " \o task.caption ELSE "")
      [] OTHER -> task.user_text

\* the turn pair appended to the window the vision call was given
AppendTurnsWindowed(task) ==
    (IF task.pc = "l804" THEN LastN(task.history, VisionWindow) ELSE task.history)
        \o <<Turn("user", UserDescriptor(task)), Turn("assistant", task.response)>>

\* the two history.append calls before the save
AppendTurns(task) ==
    task.history \o <<Turn("user", UserDescriptor(task)), Turn("assistant", task.response)>>

\* save_conversation storing the list as given, the slice forgotten
save_conversation_unsliced(st, phone, history, out) ==
    IF out = "ok" THEN [st EXCEPT ![phone] = history] ELSE st

\* save_conversation appending the new turn pair to what the store holds now
save_conversation_merging(st, phone, history, out) ==
    IF out = "ok"
    THEN [st EXCEPT ![phone] = LastN(@ \o LastN(history, 2), HistoryLimit)]
    ELSE st

\* a store write that keeps the expiry a live key already has
setex_keepttl(life, phone, seconds, out) ==
    IF out = "ok" /\ life[phone] = 0 THEN [life EXCEPT ![phone] = seconds] ELSE life

\* line 123, setex(key, 86400, value): a write that succeeds gives the key
\* 86400 seconds to live from now, whatever it had left
setex(life, phone, seconds, out) ==
    IF out = "ok" THEN [life EXCEPT ![phone] = seconds] ELSE life

\* save_conversation writing one key for every sender, the phone left out of it
save_conversation_shared(st, phone, history, out) ==
    IF out = "ok" THEN [st EXCEPT !["573001"] = LastN(history, HistoryLimit)] ELSE st

\* save_conversation(phone, history): setex of history[-20:]; nothing without a
\* connection, nothing when the store call raises
save_conversation(st, phone, history, out) ==
    IF out = "ok" THEN [st EXCEPT ![phone] = LastN(history, HistoryLimit)] ELSE st

\* an error of the write raised into process_message, the bare except forgotten
AfterSaveRaising(task, call, history) ==
    IF call.res = "error" THEN RaisedIn([task EXCEPT !.history = history], call)
    ELSE [Returned(task, call, "done") EXCEPT !.history = history]

\* lines 119-125: whatever the write did, save_conversation returns (the bare
\* except swallows its errors) and process_message returns after it
AfterSave(task, call, history) ==
    [Returned(task, call, "done") EXCEPT !.history = history]

SaveConversation(t) ==
    /\ tasks[t].pc \in {"l769", "l804", "l833"}
    /\ \E out \in StoreOutcomes(redis_client) :
          LET task == tasks[t]
              history == AppendTurns(task)
              call == Call("save_conversation", task.phone, "", history, out)
          IN  /\ store' = save_conversation(store, task.phone, history, out)
              /\ ttl' = setex(ttl, task.phone, TTL, out)
              /\ tasks' = [tasks EXCEPT ![t] = AfterSave(task, call, history)]
    /\ UNCHANGED <<utterance, redis_client, groq_api_key, nevents, http>>

\* the except clause without its inner try: an exception of the fallback send
\* leaves process_message
except_handler_unguarded(task, out) ==
    LET call == Call("send_whatsapp_message", task.phone, FallbackText, <<>>, out)
    IN  Returned(task, call, IF out = "raise" THEN "escaped" ELSE "done")

\* lines 835-840: the except clause sends the generic fallback once; an
\* exception of that send is swallowed
except_handler(task, out) ==
    Returned(task, Call("send_whatsapp_message", task.phone, FallbackText, <<>>, out),
             "done")

ExceptHandler(t) ==
    /\ tasks[t].pc = "l838"
    /\ \E out \in {"200", "non200", "raise"} :
          tasks' = [tasks EXCEPT ![t] = except_handler(tasks[t], out)]
    /\ UNCHANGED <<utterance, redis_client, groq_api_key, store, ttl, nevents, http>>

\* process_message returns; the frame of the background unit is gone
Return(t) ==
    /\ tasks[t].pc = "done"
    /\ tasks' = [tasks EXCEPT ![t] = IdleTask]
    /\ UNCHANGED <<utterance, redis_client, groq_api_key, store, ttl, nevents, http>>

\* the periods of time that pass between steps
Periods == {TTL \div 2, TTL}

\* Redis expiry: d seconds pass; a key whose time to live is used up is deleted,
\* and line 110 (`if data else []`) then reads the empty history
Elapse(d) ==
    /\ \E k \in Keys : ttl[k] > 0
    /\ ttl' = [k \in Keys |-> IF ttl[k] > d THEN ttl[k] - d ELSE 0]
    /\ store' = [k \in Keys |-> IF ttl[k] > d THEN store[k] ELSE <<>>]
    /\ UNCHANGED <<utterance, redis_client, groq_api_key, tasks, nevents, http>>

\* one step of the background unit in slot t
Step(t) ==
    \/ MarkAsRead(t, {"ok", "raise"})
    \/ DownloadMedia(t)
    \/ TranscribeAudio(t)
    \/ GetConversationHistory(t)
    \/ ChatCompletion(t)
    \/ GoogleTextToSpeech(t)
    \/ TextToSpeech(t)
    \/ SendWhatsappAudio(t)
    \/ AnalyzeImage(t)
    \/ SendWhatsappMessage(t)
    \/ SaveConversation(t)
    \/ ExceptHandler(t)
    \/ Return(t)

(***************************************************************************)
(* Spec: the server with every request and every outcome of the external   *)
(* steps; a request is served when the background unit of the previous one *)
(* has returned.                                                           *)
(***************************************************************************)
Next ==
    \/ \E mode \in Modes, token \in Tokens, challenge \in Challenges :
          AllIdle /\ GetWebhook(mode, token, challenge)
    \/ \E body \in Bodies : AllIdle /\ PostWebhook(body, MaxEvents)
    \/ Respond
    \/ \E t \in Slots : Step(t)

Spec == Init /\ [][Next]_vars

(***************************************************************************)
(* SpecRace: the background units of different requests run at the same    *)
(* time and interleave at their awaits.  The events are text messages of   *)
(* either sender; the store is connected and the provider key is set.      *)
(***************************************************************************)
RaceBodies == {MessageBody(JList(<<TextMsg(p, "Hola")>>)) : p \in Phones}

InitRace ==
    /\ Init
    /\ redis_client = "connected"
    /\ groq_api_key
    /\ \A k \in Keys : store[k] \in {<<>>, SeedHistory(HistoryLimit)}

StepRace(t) ==
    \/ MarkAsRead(t, {"either"})
    \/ GetConversationHistory(t)
    \/ ChatCompletion(t)
    \/ SendWhatsappMessage(t)
    \/ SaveConversation(t)
    \/ ExceptHandler(t)
    \/ Return(t)

NextRace ==
    \/ \E body \in RaceBodies : PostWebhook(body, MaxRacing)
    \/ Respond
    \/ \E t \in Slots : StepRace(t)

SpecRace == InitRace /\ [][NextRace]_vars

(***************************************************************************)
(* SpecAging: concurrent text events of one sender with time passing       *)
(* between the steps, so that the stored history expires.                  *)
(***************************************************************************)
AgingBodies == {MessageBody(JList(<<TextMsg("573001", "Hola")>>))}

InitAging ==
    /\ InitRace
    /\ \A k \in Keys \ {"573001"} : store[k] = <<>>

NextAging ==
    \/ \E body \in AgingBodies : PostWebhook(body, MaxRacing)
    \/ Respond
    \/ \E t \in Slots : StepRace(t)
    \/ \E d \in Periods : Elapse(d)

SpecAging == InitAging /\ [][NextAging]_vars

(***************************************************************************)
(* SpecWindow: concurrent text and image events of one sender, whose store *)
(* holds nothing, two earlier exchanges or a full window, so that the      *)
(* windows of the chat and vision requests and of the save are exercised   *)
(* under interleaving.                                                     *)
(***************************************************************************)
WindowBodies ==
    {MessageBody(JList(<<m>>)) :
        m \in {TextMsg("573001", "Hola"), ImageMsg("573001", MediaCaption)}}

InitWindow ==
    /\ Init
    /\ redis_client = "connected"
    /\ groq_api_key
    /\ \A k \in Keys \ {"573001"} : store[k] = <<>>

StepWindow(t) ==
    \/ StepRace(t)
    \/ DownloadMedia(t)
    \/ AnalyzeImage(t)

NextWindow ==
    \/ \E body \in WindowBodies : PostWebhook(body, MaxRacing)
    \/ Respond
    \/ \E t \in Slots : StepWindow(t)

SpecWindow == InitWindow /\ [][NextWindow]_vars

(***************************************************************************)
(* SpecLanguage: detect_language on its own, applied to utterances of up   *)
(* to MaxWords words and to the two transcriptions of the audio path.      *)
(***************************************************************************)
\* words an utterance is made of: keywords in either case, a keyword inside a
\* longer word, a keyword without its accent, the halves of a keyword with a
\* space, and words that hold no keyword
Vocabulary ==
    {<<"H", "o", "l", "a">>,
     <<"G", "R", "A", "C", "I", "A", "S">>,
     <<"Q", "U", "É">>,
     <<"q", "u", "e">>,
     <<"p", "o", "r">>,
     <<"f", "a", "v", "o", "r">>,
     <<"s", "e", "p", "a", "r", "a", "t", "e">>,
     <<"t", "h", "a", "n", "k">>,
     <<"y", "o", "u">>,
     <<"o", "k">>}

\* " ".join(words)
RECURSIVE Join(_)
Join(words) ==
    IF words = <<>> THEN <<>>
    ELSE IF Len(words) = 1 THEN words[1]
    ELSE words[1] \o <<" ">> \o Join(Tail(words))

Utterances ==
    {Join(words) : words \in UNION {[1..n -> Vocabulary] : n \in 0..MaxWords}}
        \cup {Chars(TranscriptES), Chars(TranscriptEN)}

InitLanguage ==
    /\ redis_client = PyNone
    /\ groq_api_key = FALSE
    /\ store = [k \in Keys |-> <<>>]
    /\ ttl = [k \in Keys |-> 0]
    /\ tasks = [t \in Slots |-> IdleTask]
    /\ nevents = 0
    /\ http = NoExchange
    /\ \E cs \in Utterances : utterance = [chars |-> cs, language |-> ""]

\* language = detect_language(user_text)
DetectLanguage ==
    /\ utterance.language = ""
    /\ utterance' = [utterance EXCEPT !.language = detect_language_chars(utterance.chars)]
    /\ UNCHANGED <<redis_client, groq_api_key, store, ttl, tasks, nevents, http>>

NextLanguage == DetectLanguage

SpecLanguage == InitLanguage /\ [][NextLanguage]_vars

(***************************************************************************)
(* Reading the record of calls of a background unit.                       *)
(***************************************************************************)
Running == {t \in Slots : tasks[t].pc # "idle"}

\* the positions of the calls of op in the record of a unit
CallsTo(task, op) == {i \in 1..Len(task.calls) : task.calls[i].op = op}

\* the positions of the attempts to send a text
TextSends(task) == CallsTo(task, "send_whatsapp_message")

\* the positions of the attempts to send the generic fallback
FallbackSends(task) == {i \in TextSends(task) : task.calls[i].text = FallbackText}

(***************************************************************************)
(* C1.  No exception escapes process_message.  When a step raises into it, *)
(* exactly one send of the generic fallback text to the sender is          *)
(* attempted, as the last call of the unit, and an exception of that send  *)
(* is swallowed: the unit returns all the same.                            *)
(***************************************************************************)
C1_FallbackOnce ==
    \A t \in Running :
        LET task == tasks[t]
        IN  /\ task.pc # "escaped"
            /\ task.pc = "l838" => task.raised /\ FallbackSends(task) = {}
            /\ task.pc = "done" /\ task.raised =>
                  /\ FallbackSends(task) = {Len(task.calls)}
                  /\ task.calls[Len(task.calls)].to = task.phone
            /\ ~task.raised => FallbackSends(task) = {}

\* the fallback send of a unit raised, and the unit has returned
C1_Witness ==
    \E t \in Running :
        /\ tasks[t].pc = "done"
        /\ tasks[t].raised
        /\ tasks[t].calls[Len(tasks[t].calls)].text = FallbackText
        /\ tasks[t].calls[Len(tasks[t].calls)].res = "raise"

(***************************************************************************)
(* C2.  Every POST /webhook is answered 200 {"status": "ok"}, whatever the *)
(* body; when the parsing of the body raises, no background unit is        *)
(* scheduled.                                                              *)
(***************************************************************************)
Acknowledged == http.resp = [status |-> 200, body |-> "ok"]

C2_AlwaysAcknowledged ==
    http.method = "POST" =>
        /\ Acknowledged
        /\ IsRaised(WebhookTry(http.req)) => ~http.scheduled /\ Running = {}

\* a body whose parsing raised has been acknowledged
C2_Witness ==
    /\ http.method = "POST"
    /\ IsRaised(WebhookTry(http.req))
    /\ Acknowledged
    /\ Running = {}

(***************************************************************************)
(* C3.  The history stored for every sender never holds more than 20       *)
(* turns, also when events of the same sender run at the same time: every  *)
(* save stores the last 20 entries of the list it is given, the oldest     *)
(* dropped first.                                                          *)
(***************************************************************************)
Min(a, b) == IF a <= b THEN a ELSE b

LastCall(task) == task.calls[Len(task.calls)]

\* the step taken is the save of the unit in slot t, and the store took it
SaveStepOk(t) ==
    /\ tasks[t].pc \in {"l769", "l804", "l833"}
    /\ tasks'[t].pc = "done"
    /\ LastCall(tasks'[t]).res = "ok"

\* stored holds the last min(Len(given), 20) entries of given, in order
KeepsNewest(stored, given) ==
    /\ Len(stored) = Min(Len(given), HistoryLimit)
    /\ \A i \in 1..Len(stored) : stored[i] = given[Len(given) - Len(stored) + i]

C3_HistoryBounded ==
    /\ [](\A k \in Keys : Len(store[k]) <= HistoryLimit)
    /\ [][\A t \in Slots :
             SaveStepOk(t) =>
                 KeepsNewest(store'[tasks[t].phone], LastCall(tasks'[t]).msgs)]_vars

\* a unit was given more than 20 turns to save while another unit of the same
\* sender was running, and 20 are stored
C3_Witness ==
    \E t \in Running, u \in Running :
        /\ t # u
        /\ tasks[u].phone = tasks[t].phone
        /\ tasks[t].pc = "done"
        /\ LastCall(tasks[t]).op = "save_conversation"
        /\ LastCall(tasks[t]).res = "ok"
        /\ Len(LastCall(tasks[t]).msgs) > HistoryLimit
        /\ Len(store[tasks[t].phone]) = HistoryLimit

(***************************************************************************)
(* C4.  For a text event with a non-empty body B of sender S: the history  *)
(* of S is loaded, chat completion is called exactly once, with B appended *)
(* after the loaded history, and when it returns a content, the next call  *)
(* is a send-text to S of exactly that content; no text is sent before the *)
(* completion.                                                             *)
(***************************************************************************)
TextBody(task) == PyGet(PyGet(task.message, "text", JEmptyDict), "body", JStr(""))

NonEmptyText(task) ==
    /\ task.message_type = "text"
    /\ ~IsRaised(TextBody(task))
    /\ TextBody(task).t = "str"
    /\ TextBody(task).v # ""

C4_TextPipeline ==
    \A t \in Running :
        LET task == tasks[t]
            calls == task.calls
            loads == CallsTo(task, "get_conversation_history")
            chats == CallsTo(task, "chat_completion")
        IN  NonEmptyText(task) =>
              /\ Cardinality(loads) <= 1
              /\ Cardinality(chats) <= 1
              /\ task.pc = "l823" /\ LastCall(task).res = "ok" =>
                    LastCall(task).msgs = store[task.phone]
              /\ \A c \in chats :
                    /\ c - 1 \in loads
                    /\ calls[c - 1].to = task.phone
                    /\ calls[c].msgs =
                          <<SystemTurn>> \o calls[c - 1].msgs
                              \o <<Turn("user", TextBody(task).v)>>
              /\ \A s \in TextSends(task) : \E c \in chats : c < s
              /\ task.pc = "done" =>
                    /\ Cardinality(chats) = 1
                    /\ \A c \in chats :
                          calls[c].res # "raise" =>
                              /\ c + 1 \in TextSends(task)
                              /\ calls[c + 1].to = task.phone
                              /\ calls[c + 1].text = calls[c].text

\* a text event answered from a stored history: the reply of the provider was sent
C4_Witness ==
    \E t \in Running :
        LET task == tasks[t]
        IN  /\ NonEmptyText(task)
            /\ task.pc = "done"
            /\ \E c \in CallsTo(task, "chat_completion") :
                  /\ task.calls[c].res = "200"
                  /\ Len(task.calls[c].msgs) > 2
                  /\ task.calls[c + 1].op = "send_whatsapp_message"
                  /\ task.calls[c + 1].text = ChatReply
                  /\ task.calls[c + 1].res = "200"

(***************************************************************************)
(* C5.  For an audio or image event whose media download yields no bytes,  *)
(* exactly one send of the fixed download apology to the sender is         *)
(* attempted, right after the download; no transcription, chat, vision or  *)
(* synthesis call is made and the stored history is neither read nor       *)
(* written.  (Only if that send raises does the generic fallback follow.)  *)
(***************************************************************************)
InferenceOps ==
    {"transcribe_audio", "chat_completion", "analyze_image", "google_text_to_speech",
     "text_to_speech", "send_whatsapp_audio"}

StoreOps == {"get_conversation_history", "save_conversation"}

ApologySends(task) == {i \in TextSends(task) : task.calls[i].text \in Apologies}

DownloadApology(task) ==
    IF task.message_type = "audio" THEN ApologyAudioDownload ELSE ApologyImageDownload

C5_DownloadFailure ==
    \A t \in Running :
        LET task == tasks[t]
            calls == task.calls
        IN  \A d \in CallsTo(task, "download_media") :
              calls[d].res = "none" =>
                /\ \A i \in 1..Len(calls) : calls[i].op \notin InferenceOps \cup StoreOps
                /\ task.pc = "done" =>
                      /\ ApologySends(task) = {d + 1}
                      /\ calls[d + 1].text = DownloadApology(task)
                      /\ calls[d + 1].to = task.phone
                      /\ \/ TextSends(task) = {d + 1}
                         \/ /\ calls[d + 1].res = "raise"
                            /\ TextSends(task) = {d + 1, d + 2}
                            /\ calls[d + 2].text = FallbackText

\* the download of a voice note of a sender with a stored history failed, and
\* the apology went out
C5_Witness ==
    \E t \in Running :
        LET task == tasks[t]
        IN  /\ task.pc = "done"
            /\ task.message_type = "audio"
            /\ store[task.phone] # <<>>
            /\ \E d \in CallsTo(task, "download_media") :
                  /\ task.calls[d].res = "none"
                  /\ task.calls[d + 1].text = ApologyAudioDownload
                  /\ task.calls[d + 1].res = "200"
                  /\ Len(task.calls) = d + 1

(***************************************************************************)
(* C6.  A POST /webhook whose body carries no messages (a status callback: *)
(* messages absent or empty) is acknowledged and schedules no background   *)
(* unit, so no call results from it.                                       *)
(***************************************************************************)
C6_StatusCallback ==
    http.method = "POST" /\ http.req \in StatusBodies =>
        /\ Acknowledged
        /\ ~http.scheduled
        /\ Running = {}

\* a delivery-status callback has been acknowledged
C6_Witness ==
    /\ http.method = "POST"
    /\ http.req = Envelope(JList(<<Entry(JList(<<Change(StatusValue)>>))>>))
    /\ Acknowledged
    /\ ~http.scheduled

(***************************************************************************)
(* C7.  GET /webhook answers the challenge verbatim with status 200        *)
(* exactly when hub.mode is "subscribe" and hub.verify_token equals the    *)
(* configured secret; in every other case, a missing token included, it    *)
(* answers with the authorization failure status 403.                      *)
(***************************************************************************)
C7_VerifyContract ==
    http.method = "GET" =>
        IF http.req.mode = "subscribe" /\ http.req.token = VERIFY_TOKEN
        THEN /\ http.resp.status = 200
             /\ http.resp.body = (IF http.req.challenge = Absent THEN ""
                                  ELSE http.req.challenge)
        ELSE http.resp.status = 403

(***************************************************************************)
(* C8.  Which failures of a step end in a message to the user.             *)
(***************************************************************************)
\* the fixed apology texts: those of process_message and those chat_completion
\* and analyze_image return on a non-success status
ApologyTexts == Apologies \cup {ChatErrorText, VisionErrorText}

\* a specific apology or the generic fallback was attempted as a text
ApologyAttempted(task) ==
    \E i \in TextSends(task) : task.calls[i].text \in ApologyTexts \cup {FallbackText}

\* results that are a failure of the step: a non-success status, no media, a
\* failed delivery, a failed or timed out encoder, a raised exception
FailureResults ==
    {"non200", "none", "false", "raise", "ffmpeg_error", "ffmpeg_timeout", "http_raise",
     "convert_failed", "exception"}

Failed(task) == task.raised \/ \E i \in 1..Len(task.calls) : task.calls[i].res \in FailureResults

\* C8 as stated: every event in which a step failed has attempted, when it
\* terminates, to send the sender a specific fixed apology or the generic fallback
C8_EveryFailureAnswered ==
    \A t \in Running :
        tasks[t].pc = "done" /\ Failed(tasks[t]) => ApologyAttempted(tasks[t])

\* failures of the content steps: no media, a transcription that failed in the
\* encoder or at the provider, a chat or vision request with a non-success status
ContentFailure(task) ==
    \E i \in 1..Len(task.calls) :
        \/ task.calls[i].op = "download_media" /\ task.calls[i].res = "none"
        \/ task.calls[i].op = "transcribe_audio"
              /\ task.calls[i].res \in {"ffmpeg_error", "non200"}
        \/ task.calls[i].op \in {"chat_completion", "analyze_image"}
              /\ task.calls[i].res = "non200"

\* the fixed apology of chat_completion went out as the voice reply
ApologyVoiced(task) ==
    /\ task.response = ChatErrorText
    /\ \E i \in CallsTo(task, "send_whatsapp_audio") : task.calls[i].res = "true"

\* C8 as amended: when the media fetch, the transcription (the transcoding of
\* the voice note included), the chat or the vision request fails without
\* raising, or when any step raises, the event has attempted, when it
\* terminates, to send the sender a fixed apology (as a text, or on the audio
\* path as the voice reply made of the apology text) or the generic fallback
C8_ContentFailureAnswered ==
    \A t \in Running :
        LET task == tasks[t]
        IN  task.pc = "done" /\ (task.raised \/ ContentFailure(task)) =>
                ApologyAttempted(task) \/ ApologyVoiced(task)

\* the encoder failed on a voice note, and the apology went out
C8_Witness ==
    \E t \in Running :
        LET task == tasks[t]
        IN  /\ task.pc = "done"
            /\ ~task.raised
            /\ \E i \in CallsTo(task, "transcribe_audio") :
                  /\ task.calls[i].res = "ffmpeg_error"
                  /\ task.calls[i + 1].text = ApologyNotUnderstood
                  /\ task.calls[i + 1].to = task.phone

(***************************************************************************)
(* C9.  When an event of sender S has a reply text r and its reply send    *)
(* has returned, the list handed to the persist step is H ++ [user: d,     *)
(* assistant: r], where H is the full history the event loaded (also on    *)
(* the image path) and d the descriptor of the modality, and the value the *)
(* store then takes for S is its last 20 entries; the persist step is the  *)
(* last call of the event and the reply send that returned precedes it.    *)
(***************************************************************************)
\* the history the unit loaded: what its store read returned
LoadedHistory(task) ==
    task.calls[CHOOSE i \in CallsTo(task, "get_conversation_history") : TRUE].msgs

\* the reply text: what the chat or vision call returned
ReplyText(task) ==
    task.calls[CHOOSE i \in CallsTo(task, "chat_completion")
                                \cup CallsTo(task, "analyze_image") : TRUE].text

\* the descriptor of the user content, from the inbound message
Descriptor(task) ==
    CASE task.message_type = "text" -> TextBody(task).v
      [] task.message_type = "audio" ->
            "[Audio] " \o task.calls[CHOOSE i \in CallsTo(task, "transcribe_audio") : TRUE].text
      [] task.message_type = "image" ->
            LET caption == PyGet(PyGet(task.message, "image", JEmptyDict), "caption", JStr(""))
            IN  IF Truthy(caption) THEN "[Imagen enviada]: " \o PyStr(caption)
                ELSE "[Imagen enviada]"
      [] OTHER -> "[" \o task.message_type \o " recibido]"

ExpectedTurns(task) ==
    LoadedHistory(task)
        \o <<Turn("user", Descriptor(task)), Turn("assistant", ReplyText(task))>>

\* the call is a reply send that returned
ReplySent(task, call) ==
    \/ call.op = "send_whatsapp_message" /\ call.res # "raise" /\ call.text = ReplyText(task)
    \/ call.op = "send_whatsapp_audio" /\ call.res = "true"

SavedPair(task) == LastN(LastCall(task).msgs, 2)

\* unit u has saved, having loaded what the unit in slot t loaded
SavedFromSameLoad(u, t) ==
    /\ u # t
    /\ tasks[u].pc = "done"
    /\ LastCall(tasks[u]).op = "save_conversation"
    /\ LastCall(tasks[u]).res = "ok"
    /\ tasks[u].phone = tasks[t].phone
    /\ LoadedHistory(tasks[u]) = LoadedHistory(tasks[t])

C10_LastWriterWins ==
    [][\A t \in Slots, u \in Slots :
          SaveStepOk(t) /\ SavedFromSameLoad(u, t) =>
              LET loaded == LoadedHistory(tasks[t])
                  mine == SavedPair(tasks'[t])
                  stored == store'[tasks[t].phone]
              IN  /\ stored = LastN(loaded \o mine, HistoryLimit)
                  /\ Len(stored) = Min(Len(loaded) + 2, HistoryLimit)
                  /\ stored # LastN(loaded \o SavedPair(tasks[u]) \o mine, HistoryLimit)]_vars

\* two units of one sender loaded the same empty history and both saved: the
\* store holds one turn pair, not the one of the other unit
C10_Witness ==
    \E t \in Running, u \in Running :
        /\ tasks[t].pc = "done"
        /\ LastCall(tasks[t]).op = "save_conversation"
        /\ LastCall(tasks[t]).res = "ok"
        /\ SavedFromSameLoad(u, t)
        /\ LoadedHistory(tasks[t]) = <<>>
        /\ SavedPair(tasks[u]) # SavedPair(tasks[t])
        /\ store[tasks[t].phone] = SavedPair(tasks[t])

(***************************************************************************)
(* C11.  Without a store connection, or when a store call raises, every    *)
(* history read returns the empty history and every save leaves the store  *)
(* as it is; the unit goes on to ask for the reply with the empty history  *)
(* and sends it; no store failure takes the unit to an apology or to the   *)
(* generic fallback.                                                       *)
(***************************************************************************)
StoreFailures == {"disconnected", "error"}

\* the positions of the store calls of a unit that failed
FailedStoreCalls(task) ==
    {i \in 1..Len(task.calls) :
        task.calls[i].op \in StoreOps /\ task.calls[i].res \in StoreFailures}

\* the step taken is the save of the unit in slot t, and the store did not take it
SaveStepFailed(t) ==
    /\ tasks[t].pc \in {"l769", "l804", "l833"}
    /\ tasks'[t].pc = "done"
    /\ LastCall(tasks'[t]).res \in StoreFailures

\* the call that follows a failed read asks for the reply with no prior turns
AsksWithEmptyHistory(task, call) ==
    \/ call.op = "chat_completion" /\ call.msgs = ChatMessages(task.user_text, <<>>)
    \/ call.op = "analyze_image" /\ call.msgs = VisionMessages(task.caption, <<>>)

C11_StoreDegrades ==
    /\ [](\A t \in Running :
             LET task == tasks[t]
             IN  /\ redis_client = PyNone =>
                        \A i \in 1..Len(task.calls) :
                            task.calls[i].op \in StoreOps => task.calls[i].res = "disconnected"
                 /\ \A i \in FailedStoreCalls(task) :
                        /\ task.calls[i].op = "get_conversation_history" =>
                              /\ task.calls[i].msgs = <<>>
                              /\ i < Len(task.calls) =>
                                    AsksWithEmptyHistory(task, task.calls[i + 1])
                        /\ task.calls[i].op = "save_conversation" =>
                              i = Len(task.calls) /\ task.pc = "done" /\ ~task.raised
                        \* the fallback is entered from another call, never from this one
                        /\ task.raised /\ task.pc = "l838" => i < Len(task.calls)
                 /\ task.pc = "done" /\ ~task.raised /\ FailedStoreCalls(task) # {} =>
                        /\ \E i \in 1..Len(task.calls) : ReplySent(task, task.calls[i])
                        /\ ApologySends(task) = {}
                        /\ FallbackSends(task) = {})
    /\ [][\A t \in Slots : SaveStepFailed(t) => store' = store]_vars

\* a connected store failed on the read and on the save of a sender with stored
\* turns: the reply of the chat went out and the stored turns are untouched
C11_Witness ==
    \E t \in Running :
        LET task == tasks[t]
        IN  /\ task.pc = "done"
            /\ ~task.raised
            /\ redis_client = "connected"
            /\ store[task.phone] # <<>>
            /\ \E i \in CallsTo(task, "get_conversation_history") :
                  task.calls[i].res = "error" /\ task.calls[i].msgs = <<>>
            /\ LastCall(task).op = "save_conversation"
            /\ LastCall(task).res = "error"
            /\ \E i \in TextSends(task) :
                  task.calls[i].text = ChatReply /\ task.calls[i].res = "200"

(***************************************************************************)
(* C12.  Every save of the history of a sender gives the stored history    *)
(* 24 hours to live from that save, and nothing but a save extends that    *)
(* time; once it is used up the history is gone from the store, a read     *)
(* returns the empty history, and the unit that reads it asks for its      *)
(* reply with no prior turns.                                              *)
(***************************************************************************)
\* the step taken is the history read of the unit in slot t, answered by the store
LoadStepOk(t) ==
    /\ tasks[t].pc \in {"l737", "l792", "l822"}
    /\ Len(tasks'[t].calls) = Len(tasks[t].calls) + 1
    /\ LastCall(tasks'[t]).res = "ok"

\* the step taken is a save of sender k that the store took
SavedNow(k) == \E t \in Slots : SaveStepOk(t) /\ tasks[t].phone = k

C12_Expiry ==
    /\ TTL = 24 * 60 * 60
    /\ [](\A k \in Keys : ttl[k] = 0 => store[k] = <<>>)
    /\ [](\A t \in Running :
             \A i \in CallsTo(tasks[t], "get_conversation_history") :
                 tasks[t].calls[i].msgs = <<>> /\ i < Len(tasks[t].calls) =>
                     AsksWithEmptyHistory(tasks[t], tasks[t].calls[i + 1]))
    /\ [][/\ \A k \in Keys :
                IF SavedNow(k) THEN ttl'[k] = TTL ELSE ttl'[k] <= ttl[k]
          /\ \A t \in Slots :
                LoadStepOk(t) /\ ttl[tasks[t].phone] = 0 =>
                    /\ LastCall(tasks'[t]).msgs = <<>>
                    /\ tasks'[t].history = <<>>]_vars

\* a unit loaded the seeded history of a sender and saved; the time to live
\* was used up, and another unit of the sender read the empty history and
\* asked for its reply with no prior turns
C12_Witness ==
    \E t \in Running, u \in Running :
        /\ t # u
        /\ tasks[u].phone = tasks[t].phone
        /\ tasks[t].pc = "done"
        /\ LastCall(tasks[t]).op = "save_conversation"
        /\ LastCall(tasks[t]).res = "ok"
        /\ Len(LoadedHistory(tasks[t])) = HistoryLimit
        /\ ttl[tasks[t].phone] = 0
        /\ store[tasks[t].phone] = <<>>
        /\ \E i \in CallsTo(tasks[u], "get_conversation_history") :
              /\ tasks[u].calls[i].res = "ok"
              /\ tasks[u].calls[i].msgs = <<>>
              /\ i < Len(tasks[u].calls)
              /\ tasks[u].calls[i + 1].msgs = <<SystemTurn, Turn("user", tasks[u].user_text)>>

(***************************************************************************)
(* C13.  For an audio event whose download succeeded and whose             *)
(* transcription returned the empty text or a text starting with "[":      *)
(* the fixed apology for a voice note not understood is sent once, right   *)
(* after the transcription, and the unit stops; it makes no chat,          *)
(* synthesis or voice-send call and neither reads nor writes the stored    *)
(* history.  (Only if that send raises does the generic fallback follow.)  *)
(***************************************************************************)
\* the transcriptions that are empty or start with "[": the placeholders of
\* transcribe_audio and a bracketed annotation returned by the provider
UnusableTranscripts ==
    {"", NoGroqPlaceholder, FfmpegPlaceholder, WhisperPlaceholder, TranscriptNoise}

\* the positions of the transcriptions of a unit that returned such a text
UnusableTranscriptions(task) ==
    {i \in CallsTo(task, "transcribe_audio") :
        task.calls[i].res \in {"nokey", "ffmpeg_error", "non200", "200"}
            /\ task.calls[i].text \in UnusableTranscripts}

C13_UnusableTranscription ==
    /\ [](\A t \in Running :
             LET task == tasks[t]
                 calls == task.calls
             IN  \A i \in UnusableTranscriptions(task) :
                   /\ calls[i - 1].op = "download_media" /\ calls[i - 1].res = "bytes"
                   /\ \A j \in 1..Len(calls) :
                         calls[j].op \notin (InferenceOps \ {"transcribe_audio"}) \cup StoreOps
                   /\ Len(calls) = i => task.pc = "l733"
                   /\ Len(calls) > i =>
                         /\ ApologySends(task) = {i + 1}
                         /\ calls[i + 1].text = ApologyNotUnderstood
                         /\ calls[i + 1].to = task.phone
                         /\ \/ TextSends(task) = {i + 1} /\ task.pc = "done"
                            \/ /\ calls[i + 1].res = "raise"
                               /\ TextSends(task) \subseteq {i + 1, i + 2}
                               /\ Len(calls) = i + 2 => calls[i + 2].text = FallbackText)
    /\ [][\A t \in Slots :
             UnusableTranscriptions(tasks[t]) # {} /\ tasks'[t] # tasks[t] =>
                 store' = store]_vars

\* the provider returned a bracketed annotation for the voice note of a sender
\* with a stored history; the apology went out and the unit ended
C13_Witness ==
    \E t \in Running :
        LET task == tasks[t]
        IN  /\ task.pc = "done"
            /\ task.message_type = "audio"
            /\ store[task.phone] # <<>>
            /\ \E i \in CallsTo(task, "transcribe_audio") :
                  /\ task.calls[i].res = "200"
                  /\ task.calls[i].text = TranscriptNoise
                  /\ task.calls[i + 1].text = ApologyNotUnderstood
                  /\ task.calls[i + 1].res = "200"
                  /\ Len(task.calls) = i + 1

(***************************************************************************)
(* C14.  On the audio path, once the chat call has returned the reply      *)
(* text: one synthesis call follows; if it returns audio, the voice send   *)
(* follows, and the text reply is sent after it exactly when the voice     *)
(* send returns failure; if it returns no audio, the text reply is sent    *)
(* and no voice send is made.  So in a unit that has ended the text reply  *)
(* was sent if and only if the synthesis returned nothing or the voice     *)
(* send returned failure, and no text at all is sent after a voice reply   *)
(* that was delivered.  (A voice send that raises ends in the generic      *)
(* fallback, without the text reply.)                                      *)
(***************************************************************************)
SynthesisCalls(task) == CallsTo(task, "google_text_to_speech") \cup CallsTo(task, "text_to_speech")

VoiceSends(task) == CallsTo(task, "send_whatsapp_audio")

\* the positions of the sends of the reply text as a text message
ReplyTextSends(task) == {i \in TextSends(task) : task.calls[i].text = ReplyText(task)}

\* the synthesis call returned audio
GaveAudio(call) == call.res \in {"audio", "mp3"}

C14_VoiceOrText ==
    \A t \in Running :
        LET task == tasks[t]
            calls == task.calls
        IN  \A c \in CallsTo(task, "chat_completion") :
              task.message_type = "audio" /\ calls[c].res # "raise" /\ task.pc = "done" =>
                /\ SynthesisCalls(task) = {c + 1}
                /\ IF GaveAudio(calls[c + 1])
                   THEN /\ VoiceSends(task) = {c + 2}
                        /\ ReplyTextSends(task) # {} <=> calls[c + 2].res = "false"
                        /\ calls[c + 2].res = "false" => ReplyTextSends(task) = {c + 3}
                        /\ calls[c + 2].res = "true" => TextSends(task) = {}
                        /\ calls[c + 2].res = "raise" => TextSends(task) = FallbackSends(task)
                   ELSE /\ VoiceSends(task) = {}
                        /\ ReplyTextSends(task) = {c + 2}
                /\ ReplyTextSends(task) # {} <=>
                      \/ ~GaveAudio(calls[c + 1])
                      \/ \E v \in VoiceSends(task) : calls[v].res = "false"
                /\ \A i \in ReplyTextSends(task) : calls[i].to = task.phone

\* the voice send of a synthesized reply returned failure, and the reply went
\* out as a text
C14_Witness ==
    \E t \in Running :
        LET task == tasks[t]
        IN  /\ task.pc = "done"
            /\ ~task.raised
            /\ task.message_type = "audio"
            /\ \E s \in SynthesisCalls(task) :
                  /\ GaveAudio(task.calls[s])
                  /\ task.calls[s + 1].op = "send_whatsapp_audio"
                  /\ task.calls[s + 1].res = "false"
                  /\ task.calls[s + 2].op = "send_whatsapp_message"
                  /\ task.calls[s + 2].text = ChatReply
                  /\ task.calls[s + 2].res = "200"

(***************************************************************************)
(* C15.  For an image event whose download succeeded: the unit loads the   *)
(* history and makes exactly one vision call, whose messages are the       *)
(* system turn, the last 6 turns of the loaded history in order (all of    *)
(* them when fewer) and the user turn with the image and the caption (the  *)
(* default question when there is no caption); it makes no chat and no     *)
(* synthesis call, sends no voice message, and sends the reply as a text.  *)
(***************************************************************************)
\* the caption of the inbound image message
CaptionOf(task) ==
    LET caption == PyGet(PyGet(task.message, "image", JEmptyDict), "caption", JStr(""))
    IN  IF Truthy(caption) THEN PyStr(caption) ELSE ""

C15_ImagePath ==
    \A t \in Running :
        LET task == tasks[t]
            calls == task.calls
        IN  \A d \in CallsTo(task, "download_media") :
              task.message_type = "image" /\ calls[d].res = "bytes" =>
                /\ \A i \in 1..Len(calls) :
                      calls[i].op \notin {"chat_completion", "transcribe_audio",
                                          "google_text_to_speech", "text_to_speech",
                                          "send_whatsapp_audio"}
                /\ CallsTo(task, "analyze_image") \subseteq {d + 2}
                /\ task.pc = "done" =>
                      LET loaded == calls[d + 1].msgs
                          sent == calls[d + 2].msgs
                          window == SubSeq(sent, 2, Len(sent) - 1)
                      IN  /\ calls[d + 1].op = "get_conversation_history"
                          /\ calls[d + 2].op = "analyze_image"
                          /\ sent[1] = SystemTurn
                          /\ Len(window) = Min(Len(loaded), VisionWindow)
                          /\ \A i \in 1..Len(window) :
                                window[i] = loaded[Len(loaded) - Len(window) + i]
                          /\ sent[Len(sent)] =
                                Turn("user", "<image> " \o
                                     (IF CaptionOf(task) = "" THEN VisionDefaultPrompt
                                      ELSE CaptionOf(task)))
                          /\ calls[d + 2].res # "raise" =>
                                /\ calls[d + 3].op = "send_whatsapp_message"
                                /\ calls[d + 3].text = calls[d + 2].text
                                /\ calls[d + 3].to = task.phone

\* an image with a caption from a sender with 20 stored turns: the vision call
\* got the last 6 of them and the caption, and the reply went out as a text
C15_Witness ==
    \E t \in Running :
        LET task == tasks[t]
        IN  /\ task.pc = "done"
            /\ task.message_type = "image"
            /\ CaptionOf(task) = "plano"
            /\ \E v \in CallsTo(task, "analyze_image") :
                  /\ task.calls[v].res = "200"
                  /\ Len(task.calls[v - 1].msgs) = HistoryLimit
                  /\ Len(task.calls[v].msgs) = VisionWindow + 2
                  /\ task.calls[v].msgs[2] = task.calls[v - 1].msgs[HistoryLimit - VisionWindow + 1]
                  /\ task.calls[v + 1].op = "send_whatsapp_message"
                  /\ task.calls[v + 1].text = VisionReply
                  /\ task.calls[v + 1].res = "200"
            /\ VoiceSends(task) = {}

(***************************************************************************)
(* C16.  When the chat provider answers with a status other than success,  *)
(* chat_completion returns its fixed apology text and raises nothing: the  *)
(* unit goes on with that text as the reply of the event (the text send on *)
(* the text path, the synthesis and the voice or text send on the audio    *)
(* path) and ends without the generic fallback, which is entered only if a *)
(* later send raises.                                                      *)
(***************************************************************************)
\* the positions of the chat calls the provider refused
RefusedChats(task) ==
    {c \in CallsTo(task, "chat_completion") : task.calls[c].res = "non200"}

C16_ChatRefused ==
    \A t \in Running :
        LET task == tasks[t]
            calls == task.calls
        IN  \A c \in RefusedChats(task) :
              /\ calls[c].text = ChatErrorText
              /\ task.response = ChatErrorText
              /\ Len(calls) = c => ~task.raised /\ task.pc \in {"l828", "l750", "l754"}
              /\ Len(calls) > c =>
                    /\ calls[c + 1].text = ChatErrorText
                    /\ IF task.message_type = "audio"
                       THEN calls[c + 1].op \in {"google_text_to_speech", "text_to_speech"}
                       ELSE calls[c + 1].op = "send_whatsapp_message"
                               /\ calls[c + 1].to = task.phone
              /\ task.raised =>
                    \E j \in (c + 1)..Len(calls) :
                        /\ calls[j].op \in {"send_whatsapp_message", "send_whatsapp_audio"}
                        /\ calls[j].res = "raise"
              /\ task.pc = "done" /\ ~task.raised =>
                    /\ FallbackSends(task) = {}
                    /\ ApologySends(task) = {}
                    /\ \E i \in 1..Len(calls) : ReplySent(task, calls[i])
                    /\ LastCall(task).op = "save_conversation"
                    /\ LastN(LastCall(task).msgs, 1) = <<Turn("assistant", ChatErrorText)>>

\* the provider refused the chat request of a text event: the apology went out
\* as the reply and the unit ended with its save
C16_Witness ==
    \E t \in Running :
        LET task == tasks[t]
        IN  /\ task.pc = "done"
            /\ task.message_type = "text"
            /\ ~task.raised
            /\ \E c \in RefusedChats(task) :
                  /\ task.calls[c + 1].op = "send_whatsapp_message"
                  /\ task.calls[c + 1].text = ChatErrorText
                  /\ task.calls[c + 1].res = "200"
                  /\ Len(task.calls) = c + 2

(***************************************************************************)
(* C17.  For both transcoding steps, the one of the inbound voice note in  *)
(* transcribe_audio and the one of the synthesized audio in                *)
(* convert_wav_to_mp3: when the encoder exits with a non-zero status or    *)
(* runs out of time, the step ends, and the unit, when it has ended, has   *)
(* attempted to send the sender an apology or the generic fallback and has *)
(* not sent the reply of the chat.                                         *)
(***************************************************************************)
\* the encoder failed or did not exit in a transcoding step of the unit
TranscodingFailed(task) ==
    \E i \in 1..Len(task.calls) :
        \/ task.calls[i].op = "transcribe_audio"
              /\ task.calls[i].res \in {"ffmpeg_error", "ffmpeg_timeout"}
        \/ task.calls[i].op = "text_to_speech"
              /\ task.calls[i].res \in {"convert_failed", "convert_hang"}

C17_TranscodingFatal ==
    \A t \in Running :
        LET task == tasks[t]
        IN  TranscodingFailed(task) =>
              \* the step ends
              /\ task.pc # "l209"
              /\ task.pc = "done" =>
                    /\ \E i \in TextSends(task) :
                          task.calls[i].text \in Apologies \cup {FallbackText}
                    /\ \A i \in TextSends(task) :
                          task.calls[i].text \notin {ChatReply, ChatNoKeyText}

(***************************************************************************)
(* C18.  detect_language returns one of two outcomes: "es" exactly when at *)
(* least one word of spanish_words occurs in the lowercased utterance, and *)
(* "en" otherwise; "gracias por tu ayuda" gives "es" and "thank you" gives *)
(* "en".                                                                   *)
(***************************************************************************)
\* word occurs in text from position i on
OccursAt(word, text, i) ==
    /\ i + Len(word) - 1 <= Len(text)
    /\ \A j \in 1..Len(word) : text[i + j - 1] = word[j]

\* some keyword occurs somewhere in the lowercased utterance
KeywordOccurs(cs) ==
    \E word \in spanish_words : \E i \in 1..Len(cs) : OccursAt(word, Lower(cs), i)

C18_LanguageHeuristic ==
    utterance.language # "" =>
        /\ utterance.language \in {"es", "en"}
        /\ utterance.language = "es" <=> KeywordOccurs(utterance.chars)
        /\ utterance.chars = Chars("gracias por tu ayuda") => utterance.language = "es"
        /\ utterance.chars = Chars("thank you") => utterance.language = "en"

\* an utterance whose only keyword is written in capitals was classified as Spanish
C18_Witness ==
    /\ utterance.chars = <<"G", "R", "A", "C", "I", "A", "S", " ", "y", "o", "u">>
    /\ utterance.language = "es"

(***************************************************************************)
(* C19.  A POST /webhook whose first entry's first change holds one or     *)
(* more messages schedules exactly one background unit, made of the first  *)
(* message: its sender, its id, its type and the message itself; further   *)
(* messages, changes and entries of the body start nothing.  The           *)
(* acknowledgement is fixed when the unit is scheduled and leaves the      *)
(* server before the unit has made its first call.                         *)
(***************************************************************************)
\* bodies with two messages, and with two entries, and the first message of each
TwoMessages ==
    MessageBody(JList(<<TextMsg("573001", "Hola"), AudioMsg("573002", MediaWithId)>>))

TwoEntries ==
    Envelope(JList(<<Entry(JList(<<Change(JDict([messages |->
                                      JList(<<StickerMsg("573002")>>)]))>>)),
                     Entry(JList(<<Change(JDict([messages |->
                                      JList(<<TextMsg("573001", "Hola")>>)]))>>))>>))

\* the first change holds no message, the second does
MessagesInSecondChange ==
    Envelope(JList(<<Entry(JList(<<Change(StatusValue),
                                   Change(JDict([messages |->
                                      JList(<<TextMsg("573001", "Hola")>>)]))>>))>>))

\* the bodies whose first change of the first entry holds messages, each with
\* its first message
FirstMessageOf ==
    {<<MessageBody(JList(<<m>>)), m>> : m \in Messages}
        \cup {<<TwoMessages, TextMsg("573001", "Hola")>>,
              <<TwoEntries, StickerMsg("573002")>>}

\* the unit process_message(phone, message, message_type, message_id) about to start
ScheduledFor(m) ==
    [IdleTask EXCEPT !.pc = "l716",
                     !.phone = IF "from" \in DOMAIN m.v THEN m.v["from"].v ELSE PyNone,
                     !.message = m,
                     !.message_type = IF "type" \in DOMAIN m.v THEN m.v["type"].v ELSE PyNone,
                     !.message_id = m.v["id"].v]

C19_OneUnitPerPost ==
    /\ [](http.method = "POST" =>
             /\ \A t \in Slots : tasks[t].pc \in {"idle", "l716"} /\ tasks[t].calls = <<>>
             /\ Cardinality(Running) = IF http.scheduled THEN 1 ELSE 0
             /\ http.req = MessagesInSecondChange => ~http.scheduled)
    /\ [][/\ \A pair \in FirstMessageOf :
                http = NoExchange /\ http'.method = "POST" /\ http'.req = pair[1] =>
                    /\ http'.resp = [status |-> 200, body |-> "ok"]
                    /\ http'.scheduled
                    /\ nevents' = nevents + 1
                    /\ \E t \in Slots :
                          /\ tasks[t].pc = "idle"
                          /\ tasks' = [tasks EXCEPT ![t] = ScheduledFor(pair[2])]
          /\ http.method = "POST" /\ http' = NoExchange =>
                /\ http.resp = [status |-> 200, body |-> "ok"]
                /\ tasks' = tasks]_vars

\* a body with two messages of two senders has been answered: one unit is
\* scheduled, the one of the first message, and it has not started
C19_Witness ==
    /\ http.method = "POST"
    /\ http.req = TwoMessages
    /\ http.resp = [status |-> 200, body |-> "ok"]
    /\ nevents = 1
    /\ \E t \in Slots :
          /\ tasks[t] = ScheduledFor(TextMsg("573001", "Hola"))
          /\ \A u \in Slots \ {t} : tasks[u] = IdleTask

(***************************************************************************)
(* C20.  Every unit attempts mark-as-read exactly once, with the id of the *)
(* message, before any other call.  Its failure is ignored: the unit       *)
(* continues from the same state, whatever the outcome of the request, so  *)
(* the rest of the pipeline and the reply are those of a unit whose        *)
(* mark-as-read succeeded, and the generic fallback is entered only by a   *)
(* later call that raises or by a message whose fields cannot be read.     *)
(***************************************************************************)
\* results of calls that raise into process_message
RaisingResults == {"raise", "ffmpeg_timeout", "http_raise"}

\* the unit as it continues after mark_as_read, the record of calls left aside
Continuation(task) == [task EXCEPT !.calls = <<>>]

C20_MarkAsReadFirst ==
    \A t \in Running :
        LET task == tasks[t]
            calls == task.calls
        IN  IF task.pc = "l716"
            THEN /\ calls = <<>>
                 /\ Continuation(mark_as_read(task, "raise"))
                        = Continuation(mark_as_read(task, "ok"))
                 /\ ~mark_as_read(task, "raise").raised
            ELSE /\ CallsTo(task, "mark_as_read") = {1}
                 /\ calls[1].text = task.message_id
                 /\ calls[1].res \in {"ok", "raise"}
                 /\ task.raised =>
                       \/ \E j \in 2..Len(calls) : calls[j].res \in RaisingResults
                       \/ task.message \in OddMessages
                 /\ task.pc = "done" /\ ~task.raised =>
                       \/ ApologySends(task) # {}
                       \/ \E i \in 1..Len(calls) : ReplySent(task, calls[i])

\* the mark-as-read request of a text event failed; the unit went on, sent the
\* reply of the chat and saved the turn pair
C20_Witness ==
    \E t \in Running :
        LET task == tasks[t]
        IN  /\ task.pc = "done"
            /\ ~task.raised
            /\ task.message_type = "text"
            /\ Len(task.calls) = 5
            /\ task.calls[1].op = "mark_as_read"
            /\ task.calls[1].res = "raise"
            /\ task.calls[3].text = ChatReply
            /\ task.calls[4].op = "send_whatsapp_message"
            /\ task.calls[4].text = ChatReply
            /\ task.calls[4].res = "200"
            /\ task.calls[5].res = "ok"
            /\ FallbackSends(task) = {}

(***************************************************************************)
(* C21.  Every dispatched unit reaches its end: no unit is ever at an      *)
(* external step that does not return, because each of them is bounded by  *)
(* a timeout.  A unit that has been dispatched and has not returned can    *)
(* always take its next step (its first one once the acknowledgement of    *)
(* the request has left).                                                  *)
(***************************************************************************)
C21_EveryStepReturns ==
    \A t \in Running : tasks[t].pc = "l716" \/ ENABLED Step(t)

(***************************************************************************)
(* C22.  While one event is processed, each provider operation is invoked  *)
(* at most once: the media download, the transcription, the chat           *)
(* completion, the vision inference and the speech synthesis (one call     *)
(* over both routes); none of them is invoked again after it failed.       *)
(***************************************************************************)
ProviderOps == {"download_media", "transcribe_audio", "chat_completion", "analyze_image"}

C22_BestEffortOnce ==
    \A t \in Running :
        LET task == tasks[t]
        IN  /\ \A op \in ProviderOps : Cardinality(CallsTo(task, op)) <= 1
            /\ Cardinality(SynthesisCalls(task)) <= 1
            /\ \A i \in 1..Len(task.calls) :
                  task.calls[i].op \in ProviderOps \cup {"google_text_to_speech", "text_to_speech"}
                      /\ task.calls[i].res \notin {"bytes", "200", "audio", "mp3"} =>
                          \A j \in (i + 1)..Len(task.calls) : task.calls[j].op # task.calls[i].op

\* the download of an image gave nothing; the unit ended after its apology
\* with that one download
C22_Witness ==
    \E t \in Running :
        LET task == tasks[t]
        IN  /\ task.pc = "done"
            /\ task.message_type = "image"
            /\ Len(task.calls) = 3
            /\ task.calls[2].op = "download_media"
            /\ task.calls[2].res = "none"
            /\ task.calls[3].op = "send_whatsapp_message"
            /\ CallsTo(task, "download_media") = {2}

(***************************************************************************)
(* C23.  On the audio path one synthesis route is invoked per event, the   *)
(* Spanish route (google_text_to_speech) when a Spanish keyword occurs in  *)
(* the transcription and the English route (text_to_speech) otherwise, and *)
(* the other route is not invoked, also when the chosen one returns        *)
(* nothing.                                                                *)
(***************************************************************************)
\* the route can return audio when called for the language
CanReturnAudio(route, language) ==
    RouteOutcomes(route, language, groq_api_key) \cap {"audio", "mp3"} # {}

\* one route per event, chosen by the language of the transcription
OneRoutePerEvent ==
    \A t \in Running :
        LET task == tasks[t]
            calls == task.calls
        IN  /\ SynthesisCalls(task) # {} => task.message_type = "audio"
            /\ \A c \in CallsTo(task, "chat_completion") :
                  task.message_type = "audio" /\ calls[c].res # "raise" /\ Len(calls) > c =>
                      /\ SynthesisCalls(task) = {c + 1}
                      /\ calls[c + 1].op =
                            IF KeywordOccurs(Chars(calls[c - 2].text))
                            THEN "google_text_to_speech" ELSE "text_to_speech"
                      /\ calls[c - 2].op = "transcribe_audio"

\* C23 as stated: one route per event, and for each language at most one
\* route that can return audio
C23_OneRoutePerLanguage ==
    /\ OneRoutePerEvent
    /\ \A language \in {"es", "en"} :
          Cardinality({route \in Routes : CanReturnAudio(route, language)}) <= 1

\* C23 as amended: one route per event; the English route returns nothing for
\* Spanish, so for Spanish only the Spanish route can return audio
C23_OneRoutePerEvent ==
    /\ OneRoutePerEvent
    /\ ~CanReturnAudio("text_to_speech", "es")
    /\ {route \in Routes : CanReturnAudio(route, "es")} = {"google_text_to_speech"}

\* the Spanish route gave nothing for a Spanish voice note: the reply went out
\* as a text and the English route was not asked
C23_Witness ==
    \E t \in Running :
        LET task == tasks[t]
        IN  /\ task.pc = "done"
            /\ task.message_type = "audio"
            /\ groq_api_key
            /\ \E s \in CallsTo(task, "google_text_to_speech") :
                  /\ task.calls[s].res = "none"
                  /\ task.calls[s - 3].text = TranscriptES
                  /\ task.calls[s + 1].op = "send_whatsapp_message"
                  /\ task.calls[s + 1].text = task.calls[s].text
            /\ CallsTo(task, "text_to_speech") = {}


(***************************************************************************)
(* C24.  At most one outbound message of a unit is delivered (a text send  *)
(* that returned status 200 or a voice send that returned True), and after *)
(* a delivered message the unit sends nothing more: no reply, no apology,  *)
(* no generic fallback.                                                    *)
(***************************************************************************)
SendOps == {"send_whatsapp_message", "send_whatsapp_audio"}

\* the positions of the sends the channel accepted
Delivered(task) ==
    {i \in 1..Len(task.calls) :
        \/ task.calls[i].op = "send_whatsapp_message" /\ task.calls[i].res = "200"
        \/ task.calls[i].op = "send_whatsapp_audio" /\ task.calls[i].res = "true"}

TerminalOnDelivery(task) ==
    /\ Cardinality(Delivered(task)) <= 1
    /\ \A i \in Delivered(task) :
          \A j \in (i + 1)..Len(task.calls) : task.calls[j].op \notin SendOps

C24_TerminalOnFirstReply ==
    \A t \in Running : TerminalOnDelivery(tasks[t])


(***************************************************************************)
(* C25.  A unit in which a step raised, and which therefore ends in the    *)
(* generic fallback, does not write the store: the save is the last call   *)
(* of every path and returns whatever the write did, so no unit both saves *)
(* and enters the fallback, and the history and the expiry of the sender   *)
(* change only by the save of a unit in which nothing raised.              *)
(***************************************************************************)
Saves(task) == CallsTo(task, "save_conversation")

C25_FallbackLeavesStore ==
    /\ [](\A t \in Running :
             LET task == tasks[t]
             IN  /\ task.raised => Saves(task) = {}
                 /\ FallbackSends(task) # {} => Saves(task) = {}
                 /\ \A i \in Saves(task) : i = Len(task.calls) /\ task.pc = "done")
    /\ [][/\ \A t \in Slots :
                tasks'[t] # tasks[t] /\ (tasks[t].raised \/ tasks'[t].raised) =>
                    store' = store /\ ttl' = ttl
          /\ store' # store \/ ttl' # ttl =>
                \E t \in Slots : SaveStepOk(t) /\ ~tasks'[t].raised]_vars

\* the send of the chat reply raised for a sender with a stored history: the
\* unit ended in the fallback without a save, the history still stored
C25_Witness ==
    \E t \in Running :
        LET task == tasks[t]
        IN  /\ task.pc = "done"
            /\ task.raised
            /\ \E i \in TextSends(task) :
                  /\ task.calls[i].text = ChatReply
                  /\ task.calls[i].res = "raise"
                  /\ task.calls[i - 2].op = "get_conversation_history"
                  /\ task.calls[i - 2].msgs = store[task.phone]
            /\ FallbackSends(task) = {Len(task.calls)}
            /\ Saves(task) = {}
            /\ store[task.phone] # <<>>
            /\ ttl[task.phone] = SeedLife


(***************************************************************************)
(* C26.  The history stored for each sender has even length and alternates *)
(* user, assistant, beginning with a user turn, in every reachable state   *)
(* and under every interleaving; so do the list a unit holds, the list it  *)
(* gives to the save and its last 20 entries, and the prior turns of every *)
(* chat request and of every vision request (the last 6): no stored or     *)
(* submitted window begins with an assistant turn.                         *)
(***************************************************************************)
Alternates(h) ==
    /\ Len(h) % 2 = 0
    /\ \A i \in 1..Len(h) : h[i].role = IF i % 2 = 1 THEN "user" ELSE "assistant"

\* the prior turns of a request: what lies between the system turn and the new
\* user message
PriorTurns(msgs) == SubSeq(msgs, 2, Len(msgs) - 1)

C26_Alternation ==
    /\ \A k \in Keys : Alternates(store[k])
    /\ \A t \in Running :
          LET task == tasks[t]
          IN  /\ Alternates(task.history)
              /\ \A i \in 1..Len(task.calls) :
                    LET call == task.calls[i]
                    IN  /\ call.op = "get_conversation_history" => Alternates(call.msgs)
                        /\ call.op = "save_conversation" =>
                              Alternates(call.msgs) /\ Alternates(LastN(call.msgs, HistoryLimit))
                        /\ call.op \in {"chat_completion", "analyze_image"} =>
                              /\ call.msgs[1] = SystemTurn
                              /\ call.msgs[Len(call.msgs)].role = "user"
                              /\ Alternates(PriorTurns(call.msgs))
                        /\ call.op = "analyze_image" =>
                              Len(PriorTurns(call.msgs)) <= VisionWindow

\* an image event of a sender with 20 stored turns, run while another unit of
\* the sender was running: the vision request got the last 6 turns, beginning
\* with a user turn, and the save cut the 22 turns to 20, beginning with a user
\* turn
C26_Witness ==
    \E t \in Running, u \in Running :
        LET task == tasks[t]
        IN  /\ t # u
            /\ tasks[u].pc # "done"
            /\ tasks[u].calls # <<>>
            /\ task.pc = "done"
            /\ LastCall(task).op = "save_conversation"
            /\ LastCall(task).res = "ok"
            /\ Len(LastCall(task).msgs) = HistoryLimit + 2
            /\ store[task.phone] = LastN(LastCall(task).msgs, HistoryLimit)
            /\ store[task.phone][1].role = "user"
            /\ \E v \in CallsTo(task, "analyze_image") :
                  /\ Len(PriorTurns(task.calls[v].msgs)) = VisionWindow
                  /\ task.calls[v].msgs[2].role = "user"


(***************************************************************************)
(* C27.  Sender isolation.  A unit processing an event of sender S reads   *)
(* the history stored under the key of S and writes only that key: each of *)
(* its steps leaves the history and the expiry stored for every other      *)
(* sender unchanged, whatever the units of other senders do in between,    *)
(* and every message it sends is addressed to S.                           *)
(***************************************************************************)
\* the sender of the inbound message: str(message.get("from"))
SenderOf(task) == PyStr(PyGet(task.message, "from", JNull))

\* the step taken is a step of the unit in slot t
StepOf(t) == tasks[t].pc \notin {"idle"} /\ tasks'[t] # tasks[t]

C27_SenderIsolation ==
    /\ [](\A t \in Running :
             LET task == tasks[t]
             IN  /\ task.phone = SenderOf(task)
                 /\ \A i \in 1..Len(task.calls) :
                       task.calls[i].op \in StoreOps \cup SendOps =>
                           task.calls[i].to = task.phone)
    /\ [][\A t \in Slots :
             StepOf(t) =>
                 /\ \A k \in Keys \ {tasks[t].phone} :
                       store'[k] = store[k] /\ ttl'[k] = ttl[k]
                 /\ LoadStepOk(t) =>
                       LastCall(tasks'[t]).msgs = store[tasks[t].phone]
                 /\ SaveStepOk(t) =>
                       store'[tasks[t].phone] =
                           LastN(LastCall(tasks'[t]).msgs, HistoryLimit)]_vars

\* units of the two senders ran at the same time, one sender with a stored
\* history and one without: each loaded its own, the one that saved changed
\* its own key only, and each reply went to its own sender
C27_Witness ==
    \E t \in Running, u \in Running :
        LET task == tasks[t]
            other == tasks[u]
        IN  /\ task.phone = "573001"
            /\ other.phone = "573002"
            /\ task.pc = "done"
            /\ LastCall(task).op = "save_conversation"
            /\ LastCall(task).res = "ok"
            /\ Len(task.calls[2].msgs) = HistoryLimit
            /\ store["573001"] = LastN(LastCall(task).msgs, HistoryLimit)
            /\ store["573002"] = <<>>
            /\ \E i \in CallsTo(other, "get_conversation_history") :
                  other.calls[i].res = "ok" /\ other.calls[i].msgs = <<>>
            /\ \E i \in TextSends(other) :
                  other.calls[i].to = "573002" /\ other.calls[i].res = "200"
            /\ \E i \in TextSends(task) :
                  task.calls[i].to = "573001" /\ task.calls[i].res = "200"


(***************************************************************************)
(* C28.  A text event whose body is empty or missing, and an audio or      *)
(* image event without a media id, get the fixed apology of their branch:  *)
(* after mark_as_read the unit sends that apology once to the sender and   *)
(* makes no media download, no inference call, no history read and no      *)
(* history write.  (Only if that send raises does the generic fallback     *)
(* follow.)                                                                *)
(***************************************************************************)
\* the media id of the inbound audio or image message
MediaId(task) ==
    PyGet(PyGet(task.message, task.message_type, JEmptyDict), "id", JNull)

\* the event carries no content: a falsy text body, or no media id
NoContent(task) ==
    \/ task.message_type = "text"
          /\ ~IsRaised(TextBody(task)) /\ ~Truthy(TextBody(task))
    \/ task.message_type \in {"audio", "image"}
          /\ ~IsRaised(MediaId(task)) /\ ~Truthy(MediaId(task))

\* the fixed apology of the branch
NoContentApology(task) ==
    CASE task.message_type = "text" -> ApologyEmptyText
      [] task.message_type = "audio" -> ApologyAudioNoId
      [] OTHER -> ApologyImageNoId

\* the unit made no call but mark_as_read and sends of a text, and its first
\* send is the apology of the branch, to the sender
ApologyOnly(task) ==
    /\ \A i \in 1..Len(task.calls) :
          task.calls[i].op \in {"mark_as_read", "send_whatsapp_message"}
    /\ ApologySends(task) \subseteq {2}
    /\ \A i \in ApologySends(task) :
          task.calls[i].text = NoContentApology(task) /\ task.calls[i].to = task.phone
    /\ task.pc = "done" => ApologySends(task) = {2}

\* the apology of the branch is sent once and no download, inference or store
\* call is made; the generic fallback follows it when, and only when, the send
\* of the apology raised
C28_ApologyThenFallback ==
    \A t \in Running :
        LET task == tasks[t]
        IN  NoContent(task) =>
                /\ ApologyOnly(task)
                /\ TextSends(task) \subseteq {2, 3}
                /\ 3 \in TextSends(task) =>
                      /\ task.calls[2].res = "raise"
                      /\ task.calls[3].text = FallbackText
                      /\ task.calls[3].to = task.phone
                /\ task.pc = "done" /\ task.calls[2].res = "raise" => Len(task.calls) = 3

\* an image without a media id from a sender with a stored history: the unit
\* returned after mark_as_read and the delivered apology
C28_Witness ==
    \E t \in Running :
        LET task == tasks[t]
        IN  /\ task.pc = "done"
            /\ task.message_type = "image"
            /\ NoContent(task)
            /\ Len(task.calls) = 2
            /\ task.calls[1].op = "mark_as_read"
            /\ task.calls[2].op = "send_whatsapp_message"
            /\ task.calls[2].text = ApologyImageNoId
            /\ task.calls[2].res = "200"
            /\ store[task.phone] # <<>>

====
